---- MODULE Spec2Model ----
(***************************************************************************)
(* A model of the change-tracking library: the tracking views of the four  *)
(* container kinds, the identity registry (objectToProxy / asOriginal),    *)
(* the commit of a recording scope (commitPatches), the history engine     *)
(* (undoPatch, createReversePatch) and the recording dispatcher.           *)
(*                                                                         *)
(* A JavaScript Map is an insertion-ordered list of entries with distinct  *)
(* keys: it is modelled as a sequence of <<key, value>> pairs.             *)
(***************************************************************************)
EXTENDS Integers, Sequences, FiniteSets, TLC

(* ------------------------------------------------------------------ *)
(* Values of the JavaScript universe that the model distinguishes      *)
(* ------------------------------------------------------------------ *)

\* The JavaScript value undefined.
Undefined == "undefined"

\* The reserved sentinel "the key had no entry before the first write".
NO_ENTRY == "NO_ENTRY"

\* Dictionary keys: "k0" is a falsy primitive (0, '' or false), "c" is a
\* container used as a key and "cv" is the tracking view of "c".
MapKeys == {"k0", "c", "cv"}

\* Values stored in a dictionary: "a" is truthy, "z" is a falsy value (0).
MapValues == {"a", "z"}

\* The objects of the identity registry (keys of the WeakMap objectToProxy).
Objects == {"c", "cv"}

\* The containers that are written through a tracking view: a dictionary, a
\* set, a sequence and a record.
Containers == {"m", "s", "arr", "obj", "obj2"}

\* What `instanceof Map`, `instanceof Set` and Array.isArray tell of a container.
KindOf(container) ==
    CASE container = "m"   -> "map"
      [] container = "s"   -> "set"
      [] container = "arr" -> "array"
      [] OTHER             -> "object"

\* Members of the set, values of the sequence, properties of the record.
SetMembers == {"k0", "c"}

ArrayValues == {"a", "z"}

Properties == {"prop0", "prop1"}

PropertyValues == {"a", "z"}

\* JavaScript truthiness, as used by `x && y`, `x || y` and `if (x)`.
Truthy(x) == x \notin {Undefined, "k0", "z"}

\* x || y
OrElse(x, y) == IF Truthy(x) THEN x ELSE y

(* ------------------------------------------------------------------ *)
(* Bounds                                                              *)
(* ------------------------------------------------------------------ *)

\* Largest number of write calls made in one recording scope.
MaxWrites == 3

\* Largest number of entries of a dictionary when the scope starts.
MaxInitEntries == 2

\* Largest number of mutateAsync invocations in a session.
MaxOps == 2

\* Largest number of instructions the mutation bodies execute in a session.
MaxSteps == 4

(* ------------------------------------------------------------------ *)
(* State                                                               *)
(* ------------------------------------------------------------------ *)

VARIABLES
    subject,        \* the container the scenario writes to
    target,         \* container -> its content
    delta,          \* container -> its open patch
    open,           \* container -> the "has open patch" flag (record, sequence)
    modified,       \* the module-level set of containers written this scope
    objectToProxy,  \* the identity registry: object -> its tracking view
    changes,        \* the batch returned by the last commitPatches()
    reverse,        \* the patch returned by createReversePatch, or <<>>
    hasReverse,     \* whether createReversePatch has been called
    phase,          \* position of the driving scenario
    mutation,       \* the calls made through the view in the scope, in order
    startTarget,    \* the container when the scope started
    postTarget,     \* the container when the scope committed
    ops,            \* mutateAsync invocation -> its progress
    executing,      \* executingAsyncOperations
    calls,          \* operation -> the middleware invocations made for it
    active,         \* the invocation whose body is running now, 0 if none
    cancelState,    \* the future returned by cancelAllAsyncOperations()
    stack,          \* the mutate invocations whose body is running, outermost first
    log,            \* the mutate invocations made, in the order they started
    callstackDepth, \* the dispatcher's count of invocations not yet unwound
    proxies,        \* the tracking views created, in order: view -> its container
    returned,       \* what the last call on the identity registry returned
    timeline,       \* the history being queried and the last query's answers
    walk            \* the run of cloneDeep or removeDiagonMetadata in progress

scopeVars == <<subject, changes, reverse, hasReverse, phase, mutation, startTarget,
               postTarget>>

dispatchVars == <<ops, executing, calls, active, cancelState>>

mutateVars == <<stack, log, callstackDepth>>

registryVars == <<proxies, returned>>

utilityVars == <<timeline, walk>>

vars == <<subject, target, delta, open, modified, objectToProxy, changes, reverse,
          hasReverse, phase, mutation, startTarget, postTarget, ops, executing,
          calls, active, cancelState, stack, log, callstackDepth, proxies,
          returned, timeline, walk>>

\* No history, and no query made.
NoTimeline == [history |-> <<>>, op |-> "none", batch |-> 0, asked |-> "undefined",
               answer |-> <<>>]

\* No run of cloneDeep or removeDiagonMetadata.
NoWalk == [fn |-> "none", outcome |-> "none"]

(* ------------------------------------------------------------------ *)
(* JavaScript Map                                                      *)
(* ------------------------------------------------------------------ *)

MapHas(m, k) == \E i \in 1..Len(m) : m[i][1] = k

MapGet(m, k) ==
    IF MapHas(m, k) THEN m[CHOOSE i \in 1..Len(m) : m[i][1] = k][2] ELSE Undefined

\* Map.prototype.set: an existing key keeps its place, a new key is appended.
MapSet(m, k, v) ==
    IF MapHas(m, k)
    THEN [i \in 1..Len(m) |-> IF m[i][1] = k THEN <<k, v>> ELSE m[i]]
    ELSE Append(m, <<k, v>>)

MapDelete(m, k) == SelectSeq(m, LAMBDA e : e[1] # k)

MapKeySet(m) == {m[i][1] : i \in 1..Len(m)}

\* A JavaScript Set is insertion-ordered too: a sequence without repetition.
SetHas(s, x) == \E i \in 1..Len(s) : s[i] = x

SetAdd(s, x) == IF SetHas(s, x) THEN s ELSE Append(s, x)

SetDelete(s, x) == SelectSeq(s, LAMBDA e : e # x)

(* ------------------------------------------------------------------ *)
(* Identity registry                                                   *)
(* ------------------------------------------------------------------ *)

\* The tracking view that `new Proxy` / `new DimmerMap` builds for a container.
ViewOf(obj) == IF obj = "c" THEN "cv" ELSE obj

\* obj[ORIGINAL]: defined on tracking views only.
ORIGINAL(obj) == IF obj = "cv" THEN "c" ELSE Undefined

\* objectToProxy.get(obj): a WeakMap has no entry for a primitive.
tryGetProxy(otp, obj) == IF obj \in Objects THEN otp[obj] ELSE Undefined

\* (obj && obj[ORIGINAL]) || obj
asOriginal(obj) == OrElse(IF Truthy(obj) THEN ORIGINAL(obj) ELSE obj, obj)

\* objectToProxy.set(target, proxy); objectToProxy.set(proxy, proxy)
createRecordingProxy(otp, obj) ==
    [otp EXCEPT ![obj] = ViewOf(obj), ![ViewOf(obj)] = ViewOf(obj)]

\* objectToProxy.get(value) || (primitive ? value : createRecordingProxy(value)):
\* the registry after proxify(value).
proxifyRegistry(otp, value) ==
    IF value \in Objects /\ ~Truthy(tryGetProxy(otp, value))
    THEN createRecordingProxy(otp, value)
    ELSE otp

\* The value returned by proxify(value).
proxify(otp, value) ==
    IF value \in Objects THEN proxifyRegistry(otp, value)[value] ELSE value


(* ------------------------------------------------------------------ *)
(* DimmerMap: the dictionary tracking view                             *)
(* A view state is a record [target, delta, open, modified, otp];      *)
(* `self` is the container the view wraps (this.target).               *)
(* ------------------------------------------------------------------ *)

getKeyUsedByMap(map, key, proxyOfKey, originalKey) ==
    IF Truthy(proxyOfKey) /\ MapHas(map, proxyOfKey)
    THEN proxyOfKey
    ELSE IF MapHas(map, originalKey) THEN originalKey ELSE Undefined

DimmerMap_size(st, self) == Len(st.target[self])

DimmerMap_has(st, self, key) ==
    LET proxyOfKey == tryGetProxy(st.otp, key)
    IN  (Truthy(proxyOfKey) /\ MapHas(st.target[self], proxyOfKey))
        \/ MapHas(st.target[self], asOriginal(key))

DimmerMap_get(st, self, key) ==
    LET proxyOfKey == tryGetProxy(st.otp, key)
        viaProxy   == IF Truthy(proxyOfKey) THEN MapGet(st.target[self], proxyOfKey)
                                            ELSE proxyOfKey
        value      == OrElse(viaProxy, MapGet(st.target[self], asOriginal(key)))
    IN  proxify(st.otp, value)

\* DimmerMap_set writing under the supplied key instead of the stored one:
\* this.target.set(key, value).
DimmerMap_set_SuppliedKey(st, self, key, value) ==
    LET proxyOfKey  == tryGetProxy(st.otp, key)
        originalKey == asOriginal(key)
        currentKeyUsedByTarget ==
            getKeyUsedByMap(st.target[self], key, proxyOfKey, originalKey)
        hasChangeAlreadyBeenRecorded ==
            MapHas(st.delta[self], originalKey)
            \/ (Truthy(proxyOfKey) /\ MapHas(st.delta[self], proxyOfKey))
        recorded ==
            IF hasChangeAlreadyBeenRecorded THEN st.delta[self]
            ELSE IF Truthy(currentKeyUsedByTarget)
                 THEN MapSet(st.delta[self], currentKeyUsedByTarget,
                             MapGet(st.target[self], currentKeyUsedByTarget))
                 ELSE MapSet(st.delta[self], key, NO_ENTRY)
    IN  [st EXCEPT
            !.modified = IF hasChangeAlreadyBeenRecorded THEN @ ELSE SetAdd(@, self),
            !.delta[self]  = recorded,
            !.target[self] = MapSet(@, key, value)]

DimmerMap_set(st, self, key, value) ==
    LET proxyOfKey  == tryGetProxy(st.otp, key)
        originalKey == asOriginal(key)
        currentKeyUsedByTarget ==
            getKeyUsedByMap(st.target[self], key, proxyOfKey, originalKey)
        hasChangeAlreadyBeenRecorded ==
            MapHas(st.delta[self], originalKey)
            \/ (Truthy(proxyOfKey) /\ MapHas(st.delta[self], proxyOfKey))
        recorded ==
            IF hasChangeAlreadyBeenRecorded THEN st.delta[self]
            ELSE IF Truthy(currentKeyUsedByTarget)
                 THEN MapSet(st.delta[self], currentKeyUsedByTarget,
                             MapGet(st.target[self], currentKeyUsedByTarget))
                 ELSE MapSet(st.delta[self], key, NO_ENTRY)
    IN  [st EXCEPT
            !.modified = IF hasChangeAlreadyBeenRecorded THEN @ ELSE SetAdd(@, self),
            !.delta[self]  = recorded,
            !.target[self] = MapSet(@, OrElse(currentKeyUsedByTarget, key), value)]

\* The boolean returned by delete(key).
DimmerMap_deleteResult(st, self, key) ==
    LET currentKeyUsedByTarget ==
            getKeyUsedByMap(st.target[self], key, tryGetProxy(st.otp, key),
                            asOriginal(key))
    IN  Truthy(currentKeyUsedByTarget)
        /\ MapHas(st.target[self], currentKeyUsedByTarget)

DimmerMap_delete(st, self, key) ==
    LET proxyOfKey  == tryGetProxy(st.otp, key)
        originalKey == asOriginal(key)
        currentKeyUsedByTarget ==
            getKeyUsedByMap(st.target[self], key, proxyOfKey, originalKey)
        hasChangeAlreadyBeenRecorded ==
            MapHas(st.delta[self], originalKey)
            \/ (Truthy(proxyOfKey) /\ MapHas(st.delta[self], proxyOfKey))
    IN  IF Truthy(currentKeyUsedByTarget)
        THEN [st EXCEPT
                !.modified = IF hasChangeAlreadyBeenRecorded THEN @
                             ELSE SetAdd(@, self),
                !.delta[self]  = IF hasChangeAlreadyBeenRecorded THEN @
                                 ELSE MapSet(@, currentKeyUsedByTarget,
                                             MapGet(st.target[self],
                                                    currentKeyUsedByTarget)),
                !.target[self] = MapDelete(@, currentKeyUsedByTarget)]
        ELSE st

\* The loop of clear() over the first n entries of the dictionary.
RECURSIVE clearLoop(_, _, _)
clearLoop(tgt, dlt, n) ==
    IF n = 0 THEN dlt
    ELSE LET before == clearLoop(tgt, dlt, n - 1)
             key    == tgt[n][1]
             value  == tgt[n][2]
         IN  IF ~MapHas(before, key) THEN MapSet(before, key, value) ELSE before

DimmerMap_clear(st, self) ==
    LET snapshot == clearLoop(st.target[self], st.delta[self], Len(st.target[self]))
    IN  [st EXCEPT
            !.modified = IF snapshot # st.delta[self] THEN SetAdd(@, self) ELSE @,
            !.delta[self]  = snapshot,
            !.target[self] = <<>>]

\* keys(), entries(), forEach() and iteration proxify every key they yield.
RECURSIVE keysLoop(_, _, _)
keysLoop(tgt, otp, n) ==
    IF n = 0 THEN otp
    ELSE proxifyRegistry(keysLoop(tgt, otp, n - 1), tgt[n][1])

DimmerMap_keys(st, self) ==
    [st EXCEPT !.otp = keysLoop(st.target[self], st.otp, Len(st.target[self]))]

\* commitDelta(): a new Map of the view's entries; the view's entries are cleared.
DimmerMap_commitDelta(st, self) ==
    [patch |-> st.delta[self], st |-> [st EXCEPT !.delta[self] = <<>>]]

(* ------------------------------------------------------------------ *)
(* The set, sequence and record tracking views                         *)
(* ------------------------------------------------------------------ *)

\* Set view: the prior membership of a member is snapshotted once per scope.
SetView_snapshot(st, self, member) ==
    IF MapHas(st.delta[self], member) THEN st
    ELSE [st EXCEPT
            !.modified = SetAdd(@, self),
            !.delta[self] = MapSet(@, member, SetHas(st.target[self], member))]

SetView_add(st, self, member) ==
    [SetView_snapshot(st, self, member) EXCEPT !.target[self] = SetAdd(@, member)]

SetView_delete(st, self, member) ==
    [SetView_snapshot(st, self, member) EXCEPT !.target[self] = SetDelete(@, member)]

\* Sequence view: the prior contents are snapshotted on the first mutating call.
ArrayView_snapshot(st, self) ==
    IF st.open[self] THEN st
    ELSE [st EXCEPT
            !.modified = SetAdd(@, self),
            !.open[self] = TRUE,
            !.delta[self] = st.target[self]]

ArrayView_push(st, self, value) ==
    [ArrayView_snapshot(st, self) EXCEPT !.target[self] = Append(@, value)]

ArrayView_pop(st, self) ==
    [ArrayView_snapshot(st, self) EXCEPT
        !.target[self] = IF Len(@) = 0 THEN @ ELSE SubSeq(@, 1, Len(@) - 1)]

ArrayView_assign(st, self, index, value) ==
    [ArrayView_snapshot(st, self) EXCEPT !.target[self][index] = value]

\* Record view: the prior value of a property (NO_ENTRY if the record had no
\* such property) is snapshotted once per scope.
ObjectView_snapshot(st, self, property) ==
    LET opened == IF st.open[self] THEN st
                  ELSE [st EXCEPT !.modified = SetAdd(@, self),
                                  !.open[self] = TRUE,
                                  !.delta[self] = <<>>]
    IN  IF MapHas(opened.delta[self], property) THEN opened
        ELSE [opened EXCEPT
                !.delta[self] =
                    MapSet(@, property,
                           IF MapHas(st.target[self], property)
                           THEN MapGet(st.target[self], property)
                           ELSE NO_ENTRY)]

ObjectView_set(st, self, property, value) ==
    [ObjectView_snapshot(st, self, property) EXCEPT
        !.target[self] = MapSet(@, property, value)]

ObjectView_deleteProperty(st, self, property) ==
    [ObjectView_snapshot(st, self, property) EXCEPT
        !.target[self] = MapDelete(@, property)]

(* ------------------------------------------------------------------ *)
(* Commit of a recording scope                                         *)
(* ------------------------------------------------------------------ *)

\* A patch with its patchToTarget association. `defined` is FALSE for the
\* undefined that objectToCurrentPatch.get() returns when it has no entry.
Patch(of, entries) == [of |-> of, entries |-> entries, defined |-> TRUE]

NoPatch(of) == [of |-> of, entries |-> <<>>, defined |-> FALSE]

\* The body of the loop of commitPatches() for one member of `modified`.
commitOne(st, container) ==
    IF KindOf(container) \in {"map", "set"}
    THEN LET commit == DimmerMap_commitDelta(st, container)
         IN  [patch |-> Patch(container, commit.patch), st |-> commit.st]
    ELSE [patch |-> IF st.open[container]
                    THEN Patch(container, st.delta[container])
                    ELSE NoPatch(container),
          st    |-> [st EXCEPT !.open[container] = FALSE,
                               !.delta[container] = <<>>]]

\* commitPatches(): one patch per member of `modified`, in insertion order.
\* `modified` itself is left as it is.
RECURSIVE commitPatches(_, _)
commitPatches(st, n) ==
    IF n = 0 THEN [changes |-> <<>>, st |-> st]
    ELSE LET before == commitPatches(st, n - 1)
             commit == commitOne(before.st, st.modified[n])
         IN  [changes |-> Append(before.changes, commit.patch),
              st      |-> commit.st]

\* createContext() and clearContext(): modified.clear()
clearContext_Keeps(st) == st

clearContext(st) == [st EXCEPT !.modified = <<>>]

(* ------------------------------------------------------------------ *)
(* History engine                                                      *)
(* ------------------------------------------------------------------ *)

\* The Map branch of undoPatch over the first n entries of the patch.
RECURSIVE undoMapLoop(_, _, _, _)
undoMapLoop(tgt, entries, otp, n) ==
    IF n = 0 THEN tgt
    ELSE LET before == undoMapLoop(tgt, entries, otp, n - 1)
             key    == entries[n][1]
             value  == entries[n][2]
             wasPreviouslyInMap == value # NO_ENTRY
             targetKey ==
                 getKeyUsedByMap(before, key, tryGetProxy(otp, key), asOriginal(key))
         IN  IF wasPreviouslyInMap
             THEN MapSet(IF targetKey # Undefined /\ key # targetKey
                         THEN MapDelete(before, targetKey)
                         ELSE before,
                         key, value)
             ELSE MapDelete(before, key)

\* The Set branch of undoPatch.
RECURSIVE undoSetLoop(_, _, _)
undoSetLoop(tgt, entries, n) ==
    IF n = 0 THEN tgt
    ELSE LET before == undoSetLoop(tgt, entries, n - 1)
             key    == entries[n][1]
             wasPreviouslyInSet == entries[n][2]
         IN  IF wasPreviouslyInSet THEN SetAdd(before, key)
                                   ELSE SetDelete(before, key)

\* The record branch of undoPatch: target[key] = value.
RECURSIVE undoObjectLoop(_, _, _)
undoObjectLoop(tgt, entries, n) ==
    IF n = 0 THEN tgt
    ELSE MapSet(undoObjectLoop(tgt, entries, n - 1), entries[n][1], entries[n][2])

\* undoPatch(patch): the content of the patch's target afterwards.
undoPatch(tgt, patch, otp) ==
    CASE KindOf(patch.of) = "map" ->
            undoMapLoop(tgt, patch.entries, otp, Len(patch.entries))
      [] KindOf(patch.of) = "set" ->
            undoSetLoop(tgt, patch.entries, Len(patch.entries))
      [] KindOf(patch.of) = "array" ->
            \* target.length = patch.length, then every index is overwritten
            patch.entries
      [] OTHER ->
            undoObjectLoop(tgt, patch.entries, Len(patch.entries))

createReversePatch(tgt, patch) ==
    CASE KindOf(patch.of) = "map" ->
            Patch(patch.of,
                  [i \in 1..Len(patch.entries) |->
                      LET key == patch.entries[i][1]
                      IN  IF ~MapHas(tgt, key) THEN <<key, NO_ENTRY>>
                                               ELSE <<key, MapGet(tgt, key)>>])
      [] KindOf(patch.of) = "set" ->
            Patch(patch.of,
                  [i \in 1..Len(patch.entries) |->
                      <<patch.entries[i][1], SetHas(tgt, patch.entries[i][1])>>])
      [] KindOf(patch.of) = "array" ->
            Patch(patch.of, tgt)
      [] OTHER ->
            Patch(patch.of,
                  [i \in 1..Len(patch.entries) |->
                      <<patch.entries[i][1], MapGet(tgt, patch.entries[i][1])>>])

(* ------------------------------------------------------------------ *)
(* The scenario: one recording scope over a container, then history    *)
(* ------------------------------------------------------------------ *)

ViewState == [target |-> target, delta |-> delta, open |-> open,
              modified |-> modified, otp |-> objectToProxy]

\* A key the caller can hold: the view of "c" exists only once it is created.
Usable(key) == key = "cv" => Truthy(objectToProxy["c"])

WriteCall(op, key, value) ==
    [op |-> op, key |-> key, value |-> value, guard |-> Undefined]

\* if (!view.has(guard)) view.set(key, value): a write that depends on a read.
GuardedCall(guard, key, value) ==
    [op |-> "setUnlessHas", key |-> key, value |-> value, guard |-> guard]

\* One write call of a mutation applied through the view of `self`.
ApplyWrite(st, self, w) ==
    CASE w.op = "set"            -> DimmerMap_set(st, self, w.key, w.value)
      [] w.op = "delete"         -> DimmerMap_delete(st, self, w.key)
      [] w.op = "clear"          -> DimmerMap_clear(st, self)
      [] w.op = "setUnlessHas"   -> IF DimmerMap_has(st, self, w.guard) THEN st
                                    ELSE DimmerMap_set(st, self, w.key, w.value)
      [] w.op = "add"            -> SetView_add(st, self, w.key)
      [] w.op = "remove"         -> SetView_delete(st, self, w.key)
      [] w.op = "push"           -> ArrayView_push(st, self, w.value)
      [] w.op = "pop"            -> ArrayView_pop(st, self)
      [] w.op = "assign"         -> ArrayView_assign(st, self, w.key, w.value)
      [] w.op = "put"            -> ObjectView_set(st, self, w.key, w.value)
      [] w.op = "deleteProperty" -> ObjectView_deleteProperty(st, self, w.key)

RECURSIVE ApplyWrites(_, _, _, _)
ApplyWrites(st, self, ws, n) ==
    IF n = 0 THEN st ELSE ApplyWrite(ApplyWrites(st, self, ws, n - 1), self, ws[n])

\* recordPatches(mutator, state): createContext(); mutator(view);
\* commitPatches(); finally clearContext().
recordPatches(st, self, ws) ==
    LET ran    == ApplyWrites(clearContext(st), self, ws, Len(ws))
        commit == commitPatches(ran, Len(ran.modified))
    IN  [changes |-> commit.changes, st |-> clearContext(commit.st)]

SeqsUpTo(S, n) == UNION {[1..k -> S] : k \in 0..n}

Distinct(q) == \A i, j \in 1..Len(q) : i # j => q[i] # q[j]

\* The contents a scope can start from. A dictionary has at most one entry
\* per logical key, a record one per property, a set no member twice.
InitContents(container) ==
    CASE container = "m" ->
            {q \in SeqsUpTo(MapKeys \X MapValues, MaxInitEntries) :
                Distinct([i \in 1..Len(q) |-> asOriginal(q[i][1])])}
      [] container = "s" ->
            {q \in SeqsUpTo(SetMembers, MaxInitEntries) : Distinct(q)}
      [] container = "arr" ->
            SeqsUpTo(ArrayValues, MaxInitEntries)
      [] OTHER ->
            {q \in SeqsUpTo(Properties \X PropertyValues, MaxInitEntries) :
                Distinct([i \in 1..Len(q) |-> q[i][1]])}

NoProxy == [o \in Objects |-> Undefined]

OpIds == 1..MaxOps

\* A mutateAsync invocation that has not been made yet.
IdleOp == [status |-> "idle", steps |-> 0, last |-> "none", checkpoints |-> 0,
           inSub |-> FALSE,
           subCheckpoints |-> 0, cancelled |-> FALSE, cancelledWaiting |-> FALSE,
           stepsAtCancel |-> 0, checkpointsAtCancel |-> 0, waits |-> 0,
           wrote |-> {}, snap |-> [c \in Containers |-> <<>>]]

Empty == [c \in Containers |-> <<>>]

Init ==
    /\ subject \in {"m", "s", "arr", "obj"}
    /\ \E content \in InitContents(subject) :
          target = [Empty EXCEPT ![subject] = content]
    /\ objectToProxy \in {NoProxy, createRecordingProxy(NoProxy, "c")}
    /\ MapHas(target["m"], "cv") => Truthy(objectToProxy["c"])
    /\ subject # "m" => objectToProxy = NoProxy
    /\ delta = Empty
    /\ open = [c \in Containers |-> FALSE]
    /\ modified = <<>>
    /\ changes = <<>>
    /\ reverse = Patch(subject, <<>>)
    /\ hasReverse = FALSE
    /\ phase = "recording"
    /\ mutation = <<>>
    /\ startTarget = target[subject]
    /\ postTarget = <<>>
    /\ ops = [op \in OpIds |-> IdleOp]
    /\ executing = {}
    /\ calls = [op \in OpIds |-> <<>>]
    /\ active = 0
    /\ cancelState = "none"
    /\ stack = <<>>
    /\ log = <<>>
    /\ callstackDepth = 0
    /\ proxies = <<>>
    /\ returned = Undefined
    /\ timeline = NoTimeline
    /\ walk = NoWalk

Apply(st) ==
    /\ target' = st.target
    /\ delta' = st.delta
    /\ open' = st.open
    /\ modified' = st.modified
    /\ objectToProxy' = st.otp

\* A write call made through the view of the subject inside the scope.
Write(self, w) ==
    /\ phase = "recording"
    /\ subject = self
    /\ Len(mutation) < MaxWrites
    /\ Apply(ApplyWrite(ViewState, self, w))
    /\ mutation' = Append(mutation, w)
    /\ UNCHANGED <<subject, changes, reverse, hasReverse, phase, startTarget,
                   postTarget>>
    /\ UNCHANGED <<dispatchVars, mutateVars, registryVars, utilityVars>>

Set(key, value) ==
    /\ Usable(key)
    /\ Write("m", WriteCall("set", key, value))

Delete(key) ==
    /\ Usable(key)
    /\ Write("m", WriteCall("delete", key, Undefined))

\* The mutation opens with a read of the dictionary and writes a key only if
\* another is missing.
SetUnlessHas(guard, key, value) ==
    /\ mutation = <<>>
    /\ Usable(guard)
    /\ Usable(key)
    /\ asOriginal(guard) # asOriginal(key)
    /\ Write("m", GuardedCall(guard, key, value))

Clear ==
    /\ subject = "m"
    /\ Write("m", WriteCall("clear", Undefined, Undefined))

Add(member) ==
    /\ subject = "s"
    /\ Write("s", WriteCall("add", member, Undefined))

Remove(member) ==
    /\ subject = "s"
    /\ Write("s", WriteCall("remove", member, Undefined))

Push(value) ==
    /\ subject = "arr"
    /\ Write("arr", WriteCall("push", Undefined, value))

Pop ==
    /\ subject = "arr"
    /\ Write("arr", WriteCall("pop", Undefined, Undefined))

Assign(index, value) ==
    /\ subject = "arr"
    /\ index \in 1..Len(target["arr"])
    /\ Write("arr", WriteCall("assign", index, value))

Put(property, value) ==
    /\ subject = "obj"
    /\ Write("obj", WriteCall("put", property, value))

DeleteProperty(property) ==
    /\ subject = "obj"
    /\ Write("obj", WriteCall("deleteProperty", property, Undefined))

\* A read through the dictionary view that yields keys: keys(), entries(),
\* forEach().
Keys ==
    /\ phase = "recording"
    /\ subject = "m"
    /\ Apply(DimmerMap_keys(ViewState, "m"))
    /\ UNCHANGED <<subject, changes, reverse, hasReverse, phase, mutation,
                   startTarget, postTarget>>
    /\ UNCHANGED <<dispatchVars, mutateVars, registryVars, utilityVars>>

\* The scope closes: commitPatches(), then clearContext().
Commit ==
    /\ phase = "recording"
    /\ LET commit == commitPatches(ViewState, Len(modified))
       IN  /\ changes' = commit.changes
           /\ Apply(clearContext(commit.st))
    /\ postTarget' = target[subject]
    /\ phase' = "committed"
    /\ UNCHANGED <<subject, reverse, hasReverse, mutation, startTarget>>
    /\ UNCHANGED <<dispatchVars, mutateVars, registryVars, utilityVars>>

CreateReversePatch ==
    /\ phase = "committed"
    /\ ~hasReverse
    /\ Len(changes) > 0
    /\ reverse' = createReversePatch(target[changes[1].of], changes[1])
    /\ hasReverse' = TRUE
    /\ UNCHANGED <<subject, target, delta, open, modified, objectToProxy, changes,
                   phase, mutation, startTarget, postTarget>>
    /\ UNCHANGED <<dispatchVars, mutateVars, registryVars, utilityVars>>

Undo ==
    /\ phase = "committed"
    /\ Len(changes) > 0
    /\ target' = [target EXCEPT ![changes[1].of] =
                      undoPatch(@, changes[1], objectToProxy)]
    /\ phase' = "undone"
    /\ UNCHANGED <<subject, delta, open, modified, objectToProxy, changes, reverse,
                   hasReverse, mutation, startTarget, postTarget>>
    /\ UNCHANGED <<dispatchVars, mutateVars, registryVars, utilityVars>>

UndoReverse ==
    /\ phase = "undone"
    /\ hasReverse
    /\ target' = [target EXCEPT ![reverse.of] = undoPatch(@, reverse, objectToProxy)]
    /\ phase' = "reundone"
    /\ UNCHANGED <<subject, delta, open, modified, objectToProxy, changes, reverse,
                   hasReverse, mutation, startTarget, postTarget>>
    /\ UNCHANGED <<dispatchVars, mutateVars, registryVars, utilityVars>>

\* The mutation is applied again, in a recording scope of its own.
Reapply ==
    /\ phase = "undone"
    /\ LET again == recordPatches(ViewState, subject, mutation)
       IN  /\ changes' = again.changes
           /\ Apply(again.st)
    /\ phase' = "reapplied"
    /\ UNCHANGED <<subject, reverse, hasReverse, mutation, startTarget, postTarget>>
    /\ UNCHANGED <<dispatchVars, mutateVars, registryVars, utilityVars>>

\* The history operations on the committed patch.
HistoryNext ==
    \/ Commit
    \/ CreateReversePatch
    \/ Undo
    \/ UndoReverse
    \/ Reapply

\* A scope over a dictionary.
MapNext ==
    \/ \E key \in MapKeys, value \in MapValues : Set(key, value)
    \/ \E key \in MapKeys : Delete(key)
    \/ \E guard \in MapKeys, key \in MapKeys, value \in MapValues :
          SetUnlessHas(guard, key, value)
    \/ Clear
    \/ Keys
    \/ HistoryNext

\* A scope over a container of any kind.
Next ==
    \/ MapNext
    \/ \E member \in SetMembers : Add(member)
    \/ \E member \in SetMembers : Remove(member)
    \/ \E value \in ArrayValues : Push(value)
    \/ Pop
    \/ \E index \in 1..(MaxInitEntries + MaxWrites), value \in ArrayValues :
          Assign(index, value)
    \/ \E property \in Properties, value \in PropertyValues : Put(property, value)
    \/ \E property \in Properties : DeleteProperty(property)

Spec == Init /\ [][Next]_vars

MapInit == Init /\ subject = "m"

SpecMap == MapInit /\ [][MapNext]_vars

(* ------------------------------------------------------------------ *)
(* Dispatcher: asynchronous mutations                                  *)
(* ------------------------------------------------------------------ *)

\* The records of the shared state that mutation bodies write.
StateRecords == {"obj", "obj2"}

\* The shared state handed to the dispatcher: `obj` as in the dispatcher's
\* tests, `obj2` a second record reachable from it, without the property.
DispatchContents == [Empty EXCEPT !["obj"] = <<<<"prop0", "a">>>>]

\* One invocation of the middleware chain, with what was handed to it.
MiddlewareCall(op, deltas, pending, o) ==
    [op |-> op, deltas |-> deltas, pending |-> pending, wrote |-> o.wrote,
     snap |-> o.snap, checkpoint |-> o.status = "yielded",
     cancelled |-> o.cancelled]

DispatchInit ==
    /\ subject = "obj"
    /\ target = DispatchContents
    /\ objectToProxy = NoProxy
    /\ delta = Empty
    /\ open = [c \in Containers |-> FALSE]
    /\ modified = <<>>
    /\ changes = <<>>
    /\ reverse = Patch(subject, <<>>)
    /\ hasReverse = FALSE
    /\ phase = "dispatching"
    /\ mutation = <<>>
    /\ startTarget = target[subject]
    /\ postTarget = <<>>
    /\ ops = [op \in OpIds |-> IdleOp]
    /\ executing = {}
    /\ calls = [op \in OpIds |-> <<>>]
    /\ active = 0
    /\ cancelState = "none"
    /\ stack = <<>>
    /\ log = <<>>
    /\ callstackDepth = 0
    /\ proxies = <<>>
    /\ returned = Undefined
    /\ timeline = NoTimeline
    /\ walk = NoWalk

\* The instructions executed so far by the bodies of the operations up to `n`.
RECURSIVE StepsUpTo(_)
StepsUpTo(n) == IF n = 0 THEN 0 ELSE ops[n].steps + StepsUpTo(n - 1)

\* mutateAsync(fn, state): the operation is registered and its body starts
\* running. With `alone` no other operation is executing.
MutateAsync(op, alone) ==
    /\ active = 0
    /\ ops[op].status = "idle"
    /\ \A earlier \in 1..(op - 1) : ops[earlier].status # "idle"
    /\ cancelState # "pending"
    /\ alone => executing = {}
    /\ ops' = [ops EXCEPT ![op] = [@ EXCEPT !.status = "running", !.snap = target]]
    /\ executing' = executing \cup {op}
    /\ active' = op
    /\ UNCHANGED <<scopeVars, mutateVars, registryVars, utilityVars,
                   target, delta, open, modified, objectToProxy,
                   calls, cancelState>>

\* The body of `op` can execute one more instruction.
Running(op) ==
    /\ active = op
    /\ ops[op].status = "running"
    /\ StepsUpTo(MaxOps) < MaxSteps

\* The body assigns a property of a record of the state through its view,
\* giving it a value it does not have.
BodyWrite(op, record, value) ==
    /\ Running(op)
    /\ ~(MapHas(target[record], "prop0") /\ MapGet(target[record], "prop0") = value)
    /\ Apply(ObjectView_set(ViewState, record, "prop0", value))
    /\ ops' = [ops EXCEPT ![op] = [@ EXCEPT !.steps = @ + 1, !.last = "write",
                                             !.wrote = @ \cup {record}]]
    /\ UNCHANGED <<scopeVars, mutateVars, registryVars, utilityVars, executing, calls, active, cancelState>>

\* The body delegates to a sub-routine (yield* nested(state)).
BodyDelegate(op) ==
    /\ Running(op)
    /\ ~ops[op].inSub
    /\ ops' = [ops EXCEPT ![op] = [@ EXCEPT !.steps = @ + 1, !.last = "delegate",
                                             !.inSub = TRUE]]
    /\ UNCHANGED <<scopeVars, mutateVars, registryVars, utilityVars,
                   target, delta, open, modified, objectToProxy,
                   executing, calls, active, cancelState>>

\* The delegated sub-routine returns to the body.
SubReturn(op) ==
    /\ active = op
    /\ ops[op].status = "running"
    /\ ops[op].inSub
    /\ ops' = [ops EXCEPT ![op] = [@ EXCEPT !.inSub = FALSE]]
    /\ UNCHANGED <<scopeVars, mutateVars, registryVars, utilityVars,
                   target, delta, open, modified, objectToProxy,
                   executing, calls, active, cancelState>>

\* The body awaits an operation outside the dispatcher (await sleep(..)).
BodyAwait(op) ==
    /\ Running(op)
    /\ ops' = [ops EXCEPT ![op] = [@ EXCEPT !.steps = @ + 1, !.last = "await",
                                             !.waits = @ + 1,
                                             !.status = "waiting"]]
    /\ active' = 0
    /\ UNCHANGED <<scopeVars, mutateVars, registryVars, utilityVars,
                   target, delta, open, modified, objectToProxy,
                   executing, calls, cancelState>>

\* The awaited operation settles and a cancelled operation is torn down
\* there and then.
ExternalSettles_TearsDown(op) ==
    /\ active = 0
    /\ ops[op].status = "waiting"
    /\ ops' = [ops EXCEPT ![op] =
                 [@ EXCEPT !.status = IF ops[op].cancelled THEN "rejected"
                                      ELSE "running"]]
    /\ executing' = IF ops[op].cancelled THEN executing \ {op} ELSE executing
    /\ active' = IF ops[op].cancelled THEN 0 ELSE op
    /\ UNCHANGED <<scopeVars, mutateVars, registryVars, utilityVars,
                   target, delta, open, modified, objectToProxy,
                   calls, cancelState>>

\* The awaited operation settles and the body goes on.
ExternalSettles(op) ==
    /\ active = 0
    /\ ops[op].status = "waiting"
    /\ ops' = [ops EXCEPT ![op] = [@ EXCEPT !.status = "running"]]
    /\ active' = op
    /\ UNCHANGED executing
    /\ UNCHANGED <<scopeVars, mutateVars, registryVars, utilityVars,
                   target, delta, open, modified, objectToProxy,
                   calls, cancelState>>

\* The body, or the sub-routine it delegated to, reaches a checkpoint (yield).
BodyCheckpoint(op) ==
    /\ Running(op)
    /\ ops' = [ops EXCEPT ![op] =
                 [@ EXCEPT !.steps = @ + 1,
                           !.last = "checkpoint",
                           !.checkpoints = @ + 1,
                           !.subCheckpoints = IF ops[op].inSub THEN @ + 1 ELSE @,
                           !.status = "yielded"]]
    /\ active' = 0
    /\ UNCHANGED <<scopeVars, mutateVars, registryVars, utilityVars,
                   target, delta, open, modified, objectToProxy,
                   executing, calls, cancelState>>

\* The body runs to its end.
BodyReturn(op) ==
    /\ active = op
    /\ ops[op].status = "running"
    /\ ~ops[op].inSub
    /\ ops' = [ops EXCEPT ![op] = [@ EXCEPT !.status = "returned"]]
    /\ active' = 0
    /\ UNCHANGED <<scopeVars, mutateVars, registryVars, utilityVars,
                   target, delta, open, modified, objectToProxy,
                   executing, calls, cancelState>>

\* What a pass leaves of the operation: torn down and rejected if it was
\* cancelled, resolved if its body ended, resumed otherwise.
AfterPass(o, now) ==
    IF o.cancelled THEN [o EXCEPT !.status = "rejected"]
    ELSE IF o.status = "returned" THEN [o EXCEPT !.status = "resolved"]
    ELSE [o EXCEPT !.status = "running", !.wrote = {}, !.snap = now]

\* The completion pass is left out when the body ended without a change
\* since its last checkpoint.
Pass_SkipsEmptyCompletion(op) ==
    LET committed == commitPatches(ViewState, Len(modified))
        closed    == clearContext(committed.st)
        after     == AfterPass(ops[op], closed.target)
    IN  /\ active = 0
        /\ ops[op].status \in {"yielded", "returned"}
        /\ Apply(closed)
        /\ calls' = IF ops[op].status = "returned" /\ committed.changes = <<>>
                    THEN calls
                    ELSE [calls EXCEPT ![op] =
                            Append(@, MiddlewareCall(op, committed.changes,
                                                     modified, ops[op]))]
        /\ ops' = [ops EXCEPT ![op] = after]
        /\ executing' = IF after.status = "running" THEN executing
                        ELSE executing \ {op}
        /\ active' = IF after.status = "running" THEN op ELSE 0
        /\ UNCHANGED <<scopeVars, mutateVars, registryVars, utilityVars, cancelState>>

\* The dispatcher takes the operation back at a checkpoint or at the end of
\* the body: it commits the scope, runs the middleware chain once with the
\* batch, closes the scope, and then rejects, resolves or resumes.
Pass(op) ==
    LET committed == commitPatches(ViewState, Len(modified))
        closed    == clearContext(committed.st)
        after     == AfterPass(ops[op], closed.target)
    IN  /\ active = 0
        /\ ops[op].status \in {"yielded", "returned"}
        /\ Apply(closed)
        /\ calls' = [calls EXCEPT ![op] =
                       Append(@, MiddlewareCall(op, committed.changes, modified,
                                                ops[op]))]
        /\ ops' = [ops EXCEPT ![op] = after]
        /\ executing' = IF after.status = "running" THEN executing
                        ELSE executing \ {op}
        /\ active' = IF after.status = "running" THEN op ELSE 0
        /\ UNCHANGED <<scopeVars, mutateVars, registryVars, utilityVars, cancelState>>

\* What cancelAllAsyncOperations() notes on an executing operation.
Cancel(o) ==
    [o EXCEPT !.cancelled = TRUE,
              !.cancelledWaiting = o.status = "waiting",
              !.stepsAtCancel = o.steps,
              !.checkpointsAtCancel = o.checkpoints]

\* cancelAllAsyncOperations(): every executing operation is asked to stop.
CancelAll ==
    /\ active = 0
    /\ cancelState # "pending"
    /\ executing # {}
    /\ ops' = [op \in OpIds |-> IF op \in executing THEN Cancel(ops[op])
                                ELSE ops[op]]
    /\ cancelState' = "pending"
    /\ UNCHANGED <<scopeVars, mutateVars, registryVars, utilityVars,
                   target, delta, open, modified, objectToProxy,
                   executing, calls, active>>

\* The future resolves without waiting for the operations.
CancelResolves_Early ==
    /\ cancelState = "pending"
    /\ cancelState' = "resolved"
    /\ UNCHANGED <<scopeVars, mutateVars, registryVars, utilityVars,
                   target, delta, open, modified, objectToProxy,
                   ops, executing, calls, active>>

\* The future of cancelAllAsyncOperations() resolves once every operation it
\* asked to stop has been torn down.
CancelResolves ==
    /\ cancelState = "pending"
    /\ \A op \in OpIds : ops[op].cancelled => op \notin executing
    /\ cancelState' = "resolved"
    /\ UNCHANGED <<scopeVars, mutateVars, registryVars, utilityVars,
                   target, delta, open, modified, objectToProxy,
                   ops, executing, calls, active>>

BodyNext(op) ==
    \/ \E record \in StateRecords, value \in PropertyValues :
          BodyWrite(op, record, value)
    \/ BodyDelegate(op)
    \/ SubReturn(op)
    \/ BodyAwait(op)
    \/ ExternalSettles(op)
    \/ BodyCheckpoint(op)
    \/ BodyReturn(op)
    \/ Pass(op)

DispatchNext ==
    \/ \E op \in OpIds : MutateAsync(op, FALSE)
    \/ \E op \in OpIds : BodyNext(op)
    \/ CancelAll
    \/ CancelResolves

SpecDispatch == DispatchInit /\ [][DispatchNext]_vars

\* One asynchronous mutation at a time.
SoloNext ==
    \/ \E op \in OpIds : MutateAsync(op, TRUE)
    \/ \E op \in OpIds : BodyNext(op)
    \/ CancelAll
    \/ CancelResolves

SpecSolo == DispatchInit /\ [][SoloNext]_vars

(* ------------------------------------------------------------------ *)
(* createRecordingDispatcher: mutate and its middleware chain           *)
(* ------------------------------------------------------------------ *)

\* Number of middlewares in the chain of the dispatcher.
MaxMiddleware == 2

\* Largest number of mutate and mutateAsync calls made in a session.
MaxCalls == 3

\* Largest number of invocations on the call stack at once.
MaxDepth == 2

\* The call made through the dispatcher.
Kinds == {"mutate", "mutateAsync"}

\* The middlewares of the chain that a call reaches: all of them when
\* every one calls next(), else those up to the one that does not.
\* stopAt = 0: every middleware calls next().
Reached(stopAt) == IF stopAt = 0 THEN MaxMiddleware ELSE stopAt

\* next() of the last middleware runs the command.
RunsCommand_Always(stopAt) == TRUE

RunsCommand(stopAt) == stopAt = 0

\* The invocations that have started and have not unwound.
ActiveInvocations == {i \in 1..Len(log) : ~log[i].unwound}

\* The dispatcher's counter when an invocation unwinds.
Unwind_Keeps(depth) == depth

Unwind(depth) == depth - 1

MutateInit ==
    /\ subject = "obj"
    /\ target = DispatchContents
    /\ objectToProxy = NoProxy
    /\ delta = Empty
    /\ open = [c \in Containers |-> FALSE]
    /\ modified = <<>>
    /\ changes = <<>>
    /\ reverse = Patch(subject, <<>>)
    /\ hasReverse = FALSE
    /\ phase = "mutating"
    /\ mutation = <<>>
    /\ startTarget = target[subject]
    /\ postTarget = <<>>
    /\ ops = [op \in OpIds |-> IdleOp]
    /\ executing = {}
    /\ calls = [op \in OpIds |-> <<>>]
    /\ active = 0
    /\ cancelState = "none"
    /\ stack = <<>>
    /\ log = <<>>
    /\ callstackDepth = 0
    /\ proxies = <<>>
    /\ returned = Undefined
    /\ timeline = NoTimeline
    /\ walk = NoWalk

\* mutate(command, state) or mutateAsync(command, state), from the top level
\* or from inside the command of another: the context is made with the
\* current depth and handed to the middleware chain; the command starts
\* when the chain gets to its end.
Mutate(kind, stopAt) ==
    /\ phase = "mutating"
    /\ Len(log) < MaxCalls
    /\ Len(stack) < MaxDepth
    /\ kind = "mutateAsync" => stopAt = 0
    /\ LET id   == Len(log) + 1
           runs == RunsCommand(stopAt)
       IN  /\ log' = Append(log,
                  [kind     |-> kind,
                   depth    |-> callstackDepth,
                   atStart  |-> Cardinality(ActiveInvocations),
                   caller   |-> IF stack = <<>> THEN 0 ELSE stack[Len(stack)],
                   allNext  |-> stopAt = 0,
                   chain    |-> 1,
                   reached  |-> Reached(stopAt),
                   bodyRuns |-> IF runs THEN 1 ELSE 0,
                   commits  |-> 0,
                   deltas   |-> <<>>,
                   wrote    |-> {},
                   snap     |-> target,
                   unwound  |-> ~runs])
           /\ stack' = IF runs THEN Append(stack, id) ELSE stack
           /\ callstackDepth' = IF runs THEN callstackDepth + 1 ELSE callstackDepth
    /\ UNCHANGED <<scopeVars, dispatchVars, registryVars, utilityVars, target, delta, open, modified,
                   objectToProxy>>

\* The command of the innermost mutate assigns a property of a record.
MutateWrite(record, value) ==
    /\ stack # <<>>
    /\ LET top == stack[Len(stack)]
       IN  /\ log[top].kind = "mutate"
           /\ record \notin log[top].wrote
           /\ ~(MapHas(target[record], "prop0")
                  /\ MapGet(target[record], "prop0") = value)
           /\ Apply(ObjectView_set(ViewState, record, "prop0", value))
           /\ log' = [log EXCEPT ![top].wrote = @ \cup {record}]
    /\ UNCHANGED <<scopeVars, dispatchVars, registryVars, utilityVars, stack, callstackDepth>>

\* The command of the innermost invocation returns (a mutateAsync command:
\* mutateAsync returns its future); a mutate commits the scope into the
\* batch of its context. The invocation unwinds.
MutateReturn ==
    /\ stack # <<>>
    /\ LET top    == stack[Len(stack)]
           commit == commitPatches(ViewState, Len(modified))
       IN  IF log[top].kind = "mutate"
           THEN /\ Apply(clearContext(commit.st))
                /\ log' = [log EXCEPT ![top].deltas = commit.changes,
                                      ![top].commits = @ + 1,
                                      ![top].unwound = TRUE]
           ELSE /\ log' = [log EXCEPT ![top].unwound = TRUE]
                /\ UNCHANGED <<target, delta, open, modified, objectToProxy>>
    /\ stack' = SubSeq(stack, 1, Len(stack) - 1)
    /\ callstackDepth' = Unwind(callstackDepth)
    /\ UNCHANGED <<scopeVars, dispatchVars, registryVars, utilityVars>>

MutateNext ==
    \/ \E kind \in Kinds, stopAt \in 0..MaxMiddleware : Mutate(kind, stopAt)
    \/ \E record \in StateRecords, value \in MapValues : MutateWrite(record, value)
    \/ MutateReturn

SpecMutate == MutateInit /\ [][MutateNext]_vars

(* ------------------------------------------------------------------ *)
(* commitPatches() called by itself                                     *)
(* ------------------------------------------------------------------ *)

\* commitPatches() without the clearContext() that recordPatches makes after
\* it: once at the end of the writes and once more right after.
CommitPatches ==
    /\ phase \in {"recording", "flushed"}
    /\ LET commit == commitPatches(ViewState, Len(modified))
       IN  /\ changes' = commit.changes
           /\ Apply(commit.st)
    /\ postTarget' = target[subject]
    /\ phase' = IF phase = "recording" THEN "flushed" ELSE "reflushed"
    /\ UNCHANGED <<subject, reverse, hasReverse, mutation, startTarget>>
    /\ UNCHANGED <<dispatchVars, mutateVars, registryVars, utilityVars>>

CommitNext ==
    \/ Next
    \/ CommitPatches

SpecCommit == Init /\ [][CommitNext]_vars

(* ------------------------------------------------------------------ *)
(* recordPatches scopes over a dictionary: one after another, one       *)
(* opened from inside the mutator of another, and mutators that throw   *)
(* ------------------------------------------------------------------ *)

\* createContext(): modified.clear()
createContext(st) == [st EXCEPT !.modified = <<>>]

\* The write calls made so far by all scopes.
WritesMade ==
    IF log = <<>> THEN 0
    ELSE LET RECURSIVE Sum(_)
             Sum(n) == IF n = 0 THEN 0 ELSE Sum(n - 1) + log[n].writes
         IN  Sum(Len(log))

ScopeInit ==
    /\ subject = "m"
    /\ \E content \in InitContents("m") : target = [Empty EXCEPT !["m"] = content]
    /\ objectToProxy \in {NoProxy, createRecordingProxy(NoProxy, "c")}
    /\ MapHas(target["m"], "cv") => Truthy(objectToProxy["c"])
    /\ delta = Empty
    /\ open = [c \in Containers |-> FALSE]
    /\ modified = <<>>
    /\ changes = <<>>
    /\ reverse = Patch(subject, <<>>)
    /\ hasReverse = FALSE
    /\ phase = "scoping"
    /\ mutation = <<>>
    /\ startTarget = target[subject]
    /\ postTarget = <<>>
    /\ ops = [op \in OpIds |-> IdleOp]
    /\ executing = {}
    /\ calls = [op \in OpIds |-> <<>>]
    /\ active = 0
    /\ cancelState = "none"
    /\ stack = <<>>
    /\ log = <<>>
    /\ callstackDepth = 0
    /\ proxies = <<>>
    /\ returned = Undefined
    /\ timeline = NoTimeline
    /\ walk = NoWalk

\* recordPatches(mutator, m) is called, from the top level or from inside the
\* mutator of the innermost open scope: try { createContext(); ...
OpenScope ==
    /\ phase = "scoping"
    /\ Len(log) < MaxCalls
    /\ Len(stack) < MaxDepth
    /\ Apply(createContext(ViewState))
    /\ log' = Append(log,
           [kind    |-> "recordPatches",
            parent  |-> IF stack = <<>> THEN 0 ELSE stack[Len(stack)],
            start   |-> target["m"],
            pending |-> modified,
            written |-> {},
            writes  |-> 0,
            deltas  |-> <<>>,
            status  |-> "open"])
    /\ stack' = Append(stack, Len(log) + 1)
    /\ UNCHANGED <<scopeVars, dispatchVars, registryVars, utilityVars, callstackDepth>>

\* The mutator of the innermost open scope calls set(key, value) on the view.
ScopeSet(key, value) ==
    /\ stack # <<>>
    /\ Usable(key)
    /\ WritesMade < MaxWrites
    /\ LET top == stack[Len(stack)]
       IN  /\ Apply(DimmerMap_set(ViewState, "m", key, value))
           /\ log' = [log EXCEPT ![top].written = @ \cup {asOriginal(key)},
                                 ![top].writes = @ + 1]
    /\ UNCHANGED <<scopeVars, dispatchVars, registryVars, utilityVars, stack, callstackDepth>>

\* The mutator of the innermost open scope returns:
\* const changes = commitPatches(); return changes; finally { clearContext(); }
CloseScope ==
    /\ stack # <<>>
    /\ LET top    == stack[Len(stack)]
           commit == commitPatches(ViewState, Len(modified))
       IN  /\ Apply(clearContext(commit.st))
           /\ log' = [log EXCEPT ![top].deltas = commit.changes,
                                 ![top].status = "committed"]
    /\ stack' = SubSeq(stack, 1, Len(stack) - 1)
    /\ UNCHANGED <<scopeVars, dispatchVars, registryVars, utilityVars, callstackDepth>>

\* The mutator of the innermost open scope throws and nothing catches the
\* error: every open recordPatches runs finally { clearContext(); } and the
\* error reaches the top-level caller.
ThrowScope ==
    /\ stack # <<>>
    /\ Apply(clearContext(ViewState))
    /\ log' = [i \in 1..Len(log) |->
                  IF log[i].status = "open" THEN [log[i] EXCEPT !.status = "failed"]
                  ELSE log[i]]
    /\ stack' = <<>>
    /\ UNCHANGED <<scopeVars, dispatchVars, registryVars, utilityVars, callstackDepth>>

ScopeNext ==
    \/ OpenScope
    \/ \E key \in MapKeys, value \in MapValues : ScopeSet(key, value)
    \/ CloseScope
    \/ ThrowScope

SpecScopes == ScopeInit /\ [][ScopeNext]_vars

(* ------------------------------------------------------------------ *)
(* The identity registry, with a new identity for every view created    *)
(* A registry state is a record [otp, proxies, returned]: otp is the    *)
(* WeakMap objectToProxy as a list of pairs, proxies the views created. *)
(* ------------------------------------------------------------------ *)

\* Containers that are not views.
RegObjects == {"o1", "o2", "o3", "o4"}

\* The identities that new Proxy(...) and new DiagonMap(...) give, in order.
ViewNames == <<"v1", "v2", "v3", "v4", "v5">>

\* The values handed to the registry: containers, views, a falsy primitive.
RegValues == RegObjects \cup {ViewNames[i] : i \in 1..Len(ViewNames)} \cup {"k0"}

\* obj[ORIGINAL]: the container of a view, undefined on anything else.
Registry_ORIGINAL(px, obj) ==
    IF \E i \in 1..Len(px) : ViewNames[i] = obj
    THEN px[CHOOSE i \in 1..Len(px) : ViewNames[i] = obj]
    ELSE Undefined

\* !!obj[ORIGINAL]
Registry_isProxy(px, obj) == Truthy(Registry_ORIGINAL(px, obj))

\* (obj && obj[ORIGINAL]) || obj
Registry_asOriginal(px, obj) ==
    OrElse(IF Truthy(obj) THEN Registry_ORIGINAL(px, obj) ELSE obj, obj)

\* objectToProxy.get(obj)
Registry_tryGetProxy(otp, obj) == MapGet(otp, obj)

\* createRecordingProxy(target): throws on a view, else makes a new view and
\* registers it for the target and for itself.
Registry_createRecordingProxy(reg, tgt) ==
    IF Registry_isProxy(reg.proxies, tgt)
    THEN [reg EXCEPT !.returned = "Error"]
    ELSE LET proxy == ViewNames[Len(reg.proxies) + 1]
         IN  [otp      |-> MapSet(MapSet(reg.otp, tgt, proxy), proxy, proxy),
              proxies  |-> Append(reg.proxies, tgt),
              returned |-> proxy]

\* tryGetProxy(obj) || createRecordingProxy(obj)
Registry_ensureProxy_Creates(reg, obj) ==
    Registry_createRecordingProxy(reg, Registry_asOriginal(reg.proxies, obj))

Registry_ensureProxy(reg, obj) ==
    LET found == Registry_tryGetProxy(reg.otp, obj)
    IN  IF Truthy(found) THEN [reg EXCEPT !.returned = found]
        ELSE Registry_createRecordingProxy(reg, obj)

\* objectToProxy.get(value)
\*   || (typeof value !== 'object' || !value ? value : createRecordingProxy(value))
Registry_proxify(reg, value) ==
    LET found == Registry_tryGetProxy(reg.otp, value)
    IN  IF Truthy(found) THEN [reg EXCEPT !.returned = found]
        ELSE IF value = "k0" THEN [reg EXCEPT !.returned = value]
        ELSE Registry_createRecordingProxy(reg, value)

Registry == [otp |-> objectToProxy, proxies |-> proxies, returned |-> returned]

\* The views that exist.
Views == {ViewNames[i] : i \in 1..Len(proxies)}

RegistryInit ==
    /\ subject = "m"
    /\ target = Empty
    /\ objectToProxy = <<>>
    /\ delta = Empty
    /\ open = [c \in Containers |-> FALSE]
    /\ modified = <<>>
    /\ changes = <<>>
    /\ reverse = Patch(subject, <<>>)
    /\ hasReverse = FALSE
    /\ phase = "tracking"
    /\ mutation = <<>>
    /\ startTarget = target[subject]
    /\ postTarget = <<>>
    /\ ops = [op \in OpIds |-> IdleOp]
    /\ executing = {}
    /\ calls = [op \in OpIds |-> <<>>]
    /\ active = 0
    /\ cancelState = "none"
    /\ stack = <<>>
    /\ log = <<>>
    /\ callstackDepth = 0
    /\ proxies = <<>>
    /\ returned = Undefined
    /\ timeline = NoTimeline
    /\ walk = NoWalk

\* The registry after a call.
Track(reg) ==
    /\ phase = "tracking"
    /\ Len(reg.proxies) <= Len(ViewNames)
    /\ objectToProxy' = reg.otp
    /\ proxies' = reg.proxies
    /\ returned' = reg.returned
    /\ UNCHANGED <<scopeVars, dispatchVars, mutateVars, utilityVars, target, delta,
                   open, modified>>

\* ensureProxy(obj) on a container or on a view.
EnsureProxy(obj) ==
    /\ obj \in RegObjects \cup Views
    /\ Track(Registry_ensureProxy(Registry, obj))

\* proxify(value) on a container, a view or a primitive.
Proxify(value) ==
    /\ value \in RegObjects \cup Views \cup {"k0"}
    /\ Track(Registry_proxify(Registry, value))

\* recordPatches(mutator, state): tryGetProxy(state) || createRecordingProxy(state)
RecordPatches(state) ==
    /\ state \in RegObjects \cup Views
    /\ Track(Registry_ensureProxy(Registry, state))

\* A read through a dictionary view, get(key), of an entry that holds
\* `value`: return proxify(value).
ViewRead(value) ==
    /\ Views # {}
    /\ value \in RegObjects \cup Views \cup {"k0"}
    /\ Track(Registry_proxify(Registry, value))

RegistryNext ==
    \/ \E obj \in RegValues : EnsureProxy(obj)
    \/ \E value \in RegValues : Proxify(value)
    \/ \E state \in RegValues : RecordPatches(state)
    \/ \E value \in RegValues : ViewRead(value)

SpecRegistry == RegistryInit /\ [][RegistryNext]_vars

(* ------------------------------------------------------------------ *)
(* Queries over a history of batches                                   *)
(* ------------------------------------------------------------------ *)

\* Largest number of batches of a history.
MaxBatches == 3

\* Largest number of patches of a batch.
MaxPatches == 2

\* The containers the patches of a history are for.
TimelineTargets == {"c", "m"}

\* The objects a query is made for: a container, its view, and a container
\* no patch is for.
TimelineObjects == {"c", "cv", "m", "s"}

\* patchToTarget.get(x): a patch is an object of its own, told apart here by
\* the place it was pushed at.
patchToTarget(x) == x.of

\* What `find` returns when no element matches, and what patchToTarget has
\* for it.
NoSuchPatch == [id |-> <<0, 0>>, of |-> Undefined]

\* The search that compares the targets with the object as it was passed.
findPatchForObject_AsPassed(patches, objectToFind) ==
    LET hits == {i \in 1..Len(patches) : patchToTarget(patches[i]) = objectToFind}
    IN  IF hits = {} THEN NoSuchPatch
        ELSE patches[CHOOSE i \in hits : \A j \in hits : i <= j]

\* patches.find(x => patchToTarget.get(x) === objTarget)
findPatchForObject(patches, objectToFind) ==
    LET objTarget == asOriginal(objectToFind)
        hits == {i \in 1..Len(patches) : patchToTarget(patches[i]) = objTarget}
    IN  IF hits = {} THEN NoSuchPatch
        ELSE patches[CHOOSE i \in hits : \A j \in hits : i <= j]

\* history.map((patches, index) => patchForOriginal ? [index, patchForOriginal]
\* : undefined).filter(x => x !== undefined); an empty tuple stands for the
\* undefined of the map step, and the index counts from 0.
getObjectTimeline(history, objectToFind) ==
    LET original == asOriginal(objectToFind)
        mapped == [index \in 1..Len(history) |->
                     LET patchForOriginal == findPatchForObject(history[index], original)
                     IN  IF patchForOriginal # NoSuchPatch
                         THEN <<index - 1, patchForOriginal>> ELSE <<>>]
        Kept(x) == x # <<>>
    IN  SelectSeq(mapped, Kept)

\* history.flat()
RECURSIVE flat(_)
flat(history) ==
    IF history = <<>> THEN <<>> ELSE Head(history) \o flat(Tail(history))

\* history.flat().filter(x => patchToTarget.get(x) === objTarget)
findAllPatchesInHistory(history, objectToFind) ==
    LET objTarget == asOriginal(objectToFind)
        Kept(x) == patchToTarget(x) = objTarget
    IN  SelectSeq(flat(history), Kept)

TimelineInit ==
    /\ subject = "m"
    /\ target = Empty
    /\ objectToProxy = <<>>
    /\ delta = Empty
    /\ open = [c \in Containers |-> FALSE]
    /\ modified = <<>>
    /\ changes = <<>>
    /\ reverse = Patch(subject, <<>>)
    /\ hasReverse = FALSE
    /\ phase = "timeline"
    /\ mutation = <<>>
    /\ startTarget = target[subject]
    /\ postTarget = <<>>
    /\ ops = [op \in OpIds |-> IdleOp]
    /\ executing = {}
    /\ calls = [op \in OpIds |-> <<>>]
    /\ active = 0
    /\ cancelState = "none"
    /\ stack = <<>>
    /\ log = <<>>
    /\ callstackDepth = 0
    /\ proxies = <<>>
    /\ returned = Undefined
    /\ timeline = NoTimeline
    /\ walk = NoWalk

\* history.push(patches): the caller appends the batch of one more scope; the
\* patches of the batch are for the containers `ofs`, in that order.
PushBatch(ofs) ==
    /\ phase = "timeline"
    /\ Len(timeline.history) < MaxBatches
    /\ timeline' = [NoTimeline EXCEPT !.history = Append(timeline.history,
                      [i \in 1..Len(ofs) |->
                         [id |-> <<Len(timeline.history) + 1, i>>, of |-> ofs[i]]])]
    /\ UNCHANGED <<scopeVars, dispatchVars, mutateVars, registryVars, walk, target,
                   delta, open, modified, objectToProxy>>

\* The history stays as it is, and the answer of a query is kept.
Answer(op, batch, objectToFind, answer) ==
    /\ phase = "timeline"
    /\ timeline' = [timeline EXCEPT !.op = op, !.batch = batch,
                                    !.asked = objectToFind, !.answer = answer]
    /\ UNCHANGED <<scopeVars, dispatchVars, mutateVars, registryVars, walk, target,
                   delta, open, modified, objectToProxy>>

GetObjectTimeline(objectToFind) ==
    /\ objectToFind \in TimelineObjects
    /\ Answer("getObjectTimeline", 0, objectToFind,
              getObjectTimeline(timeline.history, objectToFind))

FindAllPatchesInHistory(objectToFind) ==
    /\ objectToFind \in TimelineObjects
    /\ Answer("findAllPatchesInHistory", 0, objectToFind,
              findAllPatchesInHistory(timeline.history, objectToFind))

\* findPatchForObject on the batch at index `batch` of the history.
FindPatchForObject(batch, objectToFind) ==
    /\ batch < Len(timeline.history)
    /\ Answer("findPatchForObject", batch, objectToFind,
              findPatchForObject(timeline.history[batch + 1], objectToFind))

TimelineNext ==
    \/ \E ofs \in SeqsUpTo(TimelineTargets, MaxPatches) : PushBatch(ofs)
    \/ \E objectToFind \in TimelineObjects : GetObjectTimeline(objectToFind)
    \/ \E objectToFind \in TimelineObjects : FindAllPatchesInHistory(objectToFind)
    \/ \E batch \in 0..(MaxBatches - 1), objectToFind \in TimelineObjects :
          FindPatchForObject(batch, objectToFind)

SpecTimeline == TimelineInit /\ [][TimelineNext]_vars

(* ------------------------------------------------------------------ *)
(* cloneDeep and removeDiagonMetadata over a graph of containers       *)
(* ------------------------------------------------------------------ *)

\* Largest number of references a container of the graph holds.
MaxRefs == 2

\* The number of nested calls the engine's call stack has room for.
MaxStack == 4

\* The containers of the graph, and the tracking view of the first.
WalkNodes == {"n1", "n2"}

WalkViews == {"n1v"}

\* What a container can hold: a container, a view, or a primitive.
WalkRefs == WalkNodes \cup WalkViews \cup {"a"}

\* Array.isArray, isMap, isSet and isPlainObject tell the four kinds apart.
WalkKinds == {"object", "array", "map", "set"}

\* value[ORIGINAL]
Walk_ORIGINAL(value) == IF value = "n1v" THEN "n1" ELSE Undefined

\* The graphs: the references each container holds, in iteration order. The
\* references of a dictionary are its entries' keys and values in turn.
WalkGraphs ==
    {g \in [kinds : [WalkNodes -> WalkKinds],
            children : [WalkNodes -> SeqsUpTo(WalkRefs, MaxRefs)]] :
        \A n \in WalkNodes : g.kinds[n] = "map" => Len(g.children[n]) % 2 = 0}

\* The references of the container whose loop is running; the caller of the
\* outermost call holds the one value it passes.
ChildrenOf(w, node) == IF node = "root" THEN <<w.root>> ELSE w.children[node]

Top(w) == w.stack[Len(w.stack)]

\* The n-th object made as the clone of a container.
CloneName(node, nth) == node \o "_" \o ToString(nth)

\* The call at the top of the stack gets `result` back from the call it made
\* for its reference number i, and goes on with the statement that uses it.
Deliver(w, result) ==
    LET f == Top(w)
        i == f.i
        was == ChildrenOf(w, f.node)
        results == Append(f.results, result)
        next == [w EXCEPT !.stack[Len(w.stack)] = [f EXCEPT !.i = i + 1,
                                                            !.results = results]]
        kind == IF f.node = "root" THEN "root" ELSE w.kinds[f.node]
    IN  IF f.node = "root" THEN [next EXCEPT !.result = result]
        ELSE IF w.fn = "cloneDeep"
        \* clone[i] = ..., clone.set(...), clone.add(...), clone[propertyKey] = ...
        THEN [next EXCEPT !.clones[w.memo[f.node]] = Append(@, result)]
        \* target[i] = ...: `target` is what visited.get(value) gave, undefined
        ELSE IF kind = "array" THEN [next EXCEPT !.outcome = "TypeError"]
        \* target.delete(entryValue) when the entry changed
        ELSE IF kind = "set"
        THEN IF result # was[i] THEN [next EXCEPT !.outcome = "TypeError"] ELSE next
        \* target.delete(entryKey) when the key or the value of the entry changed
        ELSE IF kind = "map"
        THEN IF i % 2 = 0 /\ (results[i - 1] # was[i - 1] \/ result # was[i])
             THEN [next EXCEPT !.outcome = "TypeError"] ELSE next
        \* valueAsAny[propertyKey] = ...
        ELSE [next EXCEPT !.children[f.node][i] = result]

\* A call that gets past the early returns: it needs a frame of the stack.
Enter(w, value, entered) ==
    IF Len(w.stack) >= MaxStack THEN [w EXCEPT !.outcome = "RangeError"]
    ELSE [entered EXCEPT !.visits[value] = @ + 1,
                         !.stack = Append(w.stack,
                                     [node |-> value, i |-> 1, results |-> <<>>])]

\* cloneDeep(value, clones) up to the first recursive call of its loop: the
\* early returns, assignDiagonId, and the clone registered before the loop.
RECURSIVE cloneDeep(_, _)
cloneDeep(w, value) ==
    IF value = "a" THEN Deliver(w, value)
    ELSE IF Truthy(w.memo[value]) THEN Deliver(w, w.memo[value])
    ELSE IF Truthy(Walk_ORIGINAL(value)) THEN cloneDeep(w, Walk_ORIGINAL(value))
    ELSE LET clone == CloneName(value, w.visits[value] + 1)
         IN  Enter(w, value,
                   [w EXCEPT !.diagonIds = @ \cup {value},
                             !.memo[value] = clone,
                             !.clones = (clone :> <<>>) @@ @])

\* removeDiagonMetadata(value, visited) up to the first recursive call of its
\* loop: visited.set(value, target) stores what visited.get(value) returned.
RECURSIVE removeDiagonMetadata(_, _)
removeDiagonMetadata(w, value) ==
    IF value = "a" THEN Deliver(w, value)
    ELSE LET targetOfValue == w.memo[value]
             proxyOriginal == Walk_ORIGINAL(value)
         IN  IF Truthy(targetOfValue) THEN Deliver(w, targetOfValue)
             ELSE IF Truthy(proxyOriginal)
             THEN removeDiagonMetadata([w EXCEPT !.memo[value] = proxyOriginal],
                                       proxyOriginal)
             ELSE Enter(w, value, [w EXCEPT !.memo[value] = targetOfValue])

\* The loop of the innermost call is over: cloneDeep copies the DIAGON_ID
\* descriptor and returns the clone, removeDiagonMetadata returns value.
ReturnFrom(w) ==
    LET f == Top(w)
        popped == [w EXCEPT !.stack = SubSeq(w.stack, 1, Len(w.stack) - 1)]
    IN  IF f.node = "root" THEN [popped EXCEPT !.outcome = "returned"]
        ELSE IF w.fn = "cloneDeep"
        THEN Deliver([popped EXCEPT !.diagonIds = @ \cup {w.memo[f.node]}],
                     w.memo[f.node])
        ELSE Deliver(popped, f.node)

\* The state when fn(root) is called with a fresh WeakMap.
StartWalk(fn, graph, root) ==
    [fn |-> fn, root |-> root, kinds |-> graph.kinds, graph |-> graph.children,
     children |-> graph.children,
     memo |-> [n \in WalkNodes \cup WalkViews |-> Undefined],
     visits |-> [n \in WalkNodes |-> 0],
     clones |-> <<>>, diagonIds |-> {},
     stack |-> <<[node |-> "root", i |-> 1, results |-> <<>>]>>,
     result |-> Undefined, outcome |-> "running"]

WalkInit ==
    /\ subject = "m"
    /\ target = Empty
    /\ objectToProxy = <<>>
    /\ delta = Empty
    /\ open = [c \in Containers |-> FALSE]
    /\ modified = <<>>
    /\ changes = <<>>
    /\ reverse = Patch(subject, <<>>)
    /\ hasReverse = FALSE
    /\ phase = "walking"
    /\ mutation = <<>>
    /\ startTarget = target[subject]
    /\ postTarget = <<>>
    /\ ops = [op \in OpIds |-> IdleOp]
    /\ executing = {}
    /\ calls = [op \in OpIds |-> <<>>]
    /\ active = 0
    /\ cancelState = "none"
    /\ stack = <<>>
    /\ log = <<>>
    /\ callstackDepth = 0
    /\ proxies = <<>>
    /\ returned = Undefined
    /\ timeline = NoTimeline
    /\ walk \in {StartWalk(fn, graph, root) :
                   fn \in {"cloneDeep", "removeDiagonMetadata"},
                   graph \in WalkGraphs, root \in {"n1", "n1v"}}

WalkStep(w) ==
    /\ phase = "walking"
    /\ walk.outcome = "running"
    /\ walk' = w
    /\ UNCHANGED <<scopeVars, dispatchVars, mutateVars, registryVars, timeline, target,
                   delta, open, modified, objectToProxy>>

\* The innermost call reaches the next reference of its loop and calls the
\* function on it.
Visit ==
    /\ walk.outcome = "running"
    /\ Top(walk).i <= Len(ChildrenOf(walk, Top(walk).node))
    /\ LET value == ChildrenOf(walk, Top(walk).node)[Top(walk).i]
       IN  WalkStep(IF walk.fn = "cloneDeep" THEN cloneDeep(walk, value)
                    ELSE removeDiagonMetadata(walk, value))

\* The innermost call has gone through its references and returns.
Return ==
    /\ walk.outcome = "running"
    /\ Top(walk).i > Len(ChildrenOf(walk, Top(walk).node))
    /\ WalkStep(ReturnFrom(walk))

WalkNext == Visit \/ Return

SpecWalk == WalkInit /\ [][WalkNext]_vars

(* ------------------------------------------------------------------ *)
(* Reads through the dictionary view                                   *)
(* ------------------------------------------------------------------ *)

\* The read calls of the dictionary view; iterating the view is entries().
ReadOps == {"size", "has", "get", "forEach", "keys", "values", "entries"}

\* The values written in a scope with reads: a container can be a value too.
ReadValues == MapValues \cup {"c"}

\* A get(key) that snapshots the key as a write does.
DimmerMap_getState_Snapshots(st, self, key) ==
    [st EXCEPT !.modified = SetAdd(@, self),
               !.delta[self] = MapSet(@, key, DimmerMap_get(st, self, key))]

\* The state get(key) leaves: proxify(value) may create the view of the value.
DimmerMap_getState(st, self, key) ==
    LET proxyOfKey == tryGetProxy(st.otp, key)
        viaProxy   == IF Truthy(proxyOfKey) THEN MapGet(st.target[self], proxyOfKey)
                                            ELSE proxyOfKey
        value      == OrElse(viaProxy, MapGet(st.target[self], asOriginal(key)))
    IN  [st EXCEPT !.otp = proxifyRegistry(@, value)]

\* The registry after the first n entries of the dictionary were yielded, the
\* parts of an entry proxified in the order `parts` (1 the key, 2 the value).
RECURSIVE yieldLoop(_, _, _, _)
yieldLoop(tgt, otp, n, parts) ==
    IF n = 0 THEN otp
    ELSE LET before == yieldLoop(tgt, otp, n - 1, parts)
             first == proxifyRegistry(before, tgt[n][parts[1]])
         IN  IF Len(parts) = 1 THEN first
             ELSE proxifyRegistry(first, tgt[n][parts[2]])

\* forEach(cb): cb.call(thisArg, proxify(value), proxify(key), this)
DimmerMap_forEach(st, self) ==
    [st EXCEPT !.otp = yieldLoop(st.target[self], @, Len(st.target[self]), <<2, 1>>)]

\* values(): yield proxify(value)
DimmerMap_values(st, self) ==
    [st EXCEPT !.otp = yieldLoop(st.target[self], @, Len(st.target[self]), <<2>>)]

\* entries() and [Symbol.iterator](): yield [proxify(key), proxify(value)]
DimmerMap_entries(st, self) ==
    [st EXCEPT !.otp = yieldLoop(st.target[self], @, Len(st.target[self]), <<1, 2>>)]

\* The state a read call made through the view of `self` leaves. size and has
\* read this.target and the registry only.
ApplyRead(st, self, r) ==
    CASE r.op = "size"    -> st
      [] r.op = "has"     -> st
      [] r.op = "get"     -> DimmerMap_getState(st, self, r.key)
      [] r.op = "forEach" -> DimmerMap_forEach(st, self)
      [] r.op = "keys"    -> DimmerMap_keys(st, self)
      [] r.op = "values"  -> DimmerMap_values(st, self)
      [] r.op = "entries" -> DimmerMap_entries(st, self)

\* A read call made through the view of the dictionary inside the scope.
Read(r) ==
    /\ phase = "recording"
    /\ subject = "m"
    /\ Len(mutation) < MaxWrites
    /\ Apply(ApplyRead(ViewState, "m", r))
    /\ mutation' = Append(mutation, r)
    /\ UNCHANGED <<subject, changes, reverse, hasReverse, phase, startTarget,
                   postTarget>>
    /\ UNCHANGED <<dispatchVars, mutateVars, registryVars, utilityVars>>

Size ==
    /\ subject = "m"
    /\ Read(WriteCall("size", Undefined, Undefined))

Has(key) ==
    /\ Usable(key)
    /\ Read(WriteCall("has", key, Undefined))

Get(key) ==
    /\ Usable(key)
    /\ Read(WriteCall("get", key, Undefined))

ForEach ==
    /\ subject = "m"
    /\ Read(WriteCall("forEach", Undefined, Undefined))

ReadKeys ==
    /\ subject = "m"
    /\ Read(WriteCall("keys", Undefined, Undefined))

Values ==
    /\ subject = "m"
    /\ Read(WriteCall("values", Undefined, Undefined))

Entries ==
    /\ subject = "m"
    /\ Read(WriteCall("entries", Undefined, Undefined))

\* A step that is a read call.
ReadStep ==
    \/ Size
    \/ \E key \in MapKeys : Has(key)
    \/ \E key \in MapKeys : Get(key)
    \/ ForEach
    \/ ReadKeys
    \/ Values
    \/ Entries

\* A scope over a dictionary in which reads and writes alternate.
ReadsNext ==
    \/ \E key \in MapKeys, value \in ReadValues : Set(key, value)
    \/ \E key \in MapKeys : Delete(key)
    \/ Clear
    \/ ReadStep
    \/ Commit

SpecReads == MapInit /\ [][ReadsNext]_vars

(* ------------------------------------------------------------------ *)
(* Vocabulary of the properties                                        *)
(* ------------------------------------------------------------------ *)

Range(q) == {q[i] : i \in 1..Len(q)}

Max(S) == CHOOSE x \in S : \A y \in S : y <= x

\* A logical key is a key up to the view/original distinction.
LogicalKeys == {asOriginal(k) : k \in MapKeys}

\* The logical key-to-value mapping of a dictionary, as a set of pairs.
LogicalEntries(m) == {<<asOriginal(m[i][1]), m[i][2]>> : i \in 1..Len(m)}

\* The value a logical key has in a dictionary, NO_ENTRY if it has none.
LogicalValue(m, lk) ==
    IF \E e \in LogicalEntries(m) : e[1] = lk
    THEN (CHOOSE e \in LogicalEntries(m) : e[1] = lk)[2]
    ELSE NO_ENTRY

\* The positions of the patch entries recorded for a logical key.
EntriesFor(entries, lk) == {i \in 1..Len(entries) : asOriginal(entries[i][1]) = lk}

\* The write calls of the scope that act on a logical key of the dictionary.
CallsOn(lk) ==
    {i \in 1..Len(mutation) :
        IF mutation[i].op = "clear" THEN TRUE ELSE asOriginal(mutation[i].key) = lk}

SetCallsOn(lk) ==
    {i \in 1..Len(mutation) :
        IF mutation[i].op = "set" THEN asOriginal(mutation[i].key) = lk ELSE FALSE}

\* The mutation is a fixed sequence of set, delete and clear calls.
PlainMutation == \A i \in 1..Len(mutation) : mutation[i].op # "setUnlessHas"

\* The entries of the committed patch of the subject, <<>> if none.
CommittedEntries == IF Len(changes) > 0 THEN changes[1].entries ELSE <<>>

(* ------------------------------------------------------------------ *)
(* C1                                                                  *)
(* ------------------------------------------------------------------ *)

\* C1: first write wins. When a scope over a dictionary commits, every logical
\* key that a set call of the scope named has exactly one entry in the
\* committed patch, no logical key has more than one, every entry holds the
\* value its key had when the scope started (NO_ENTRY if it had none), and a
\* key whose last write call was set(k, v) maps to v in the dictionary.
C1_FirstWriteWins ==
    (subject = "m" /\ phase = "committed") =>
        \A lk \in LogicalKeys :
            /\ Cardinality(EntriesFor(CommittedEntries, lk)) <= 1
            /\ SetCallsOn(lk) # {} => Cardinality(EntriesFor(CommittedEntries, lk)) = 1
            /\ \A i \in EntriesFor(CommittedEntries, lk) :
                   CommittedEntries[i][2] = LogicalValue(startTarget, lk)
            /\ (CallsOn(lk) # {} /\ Max(CallsOn(lk)) \in SetCallsOn(lk)) =>
                   LogicalValue(target["m"], lk) = mutation[Max(CallsOn(lk))].value

(* ------------------------------------------------------------------ *)
(* C2                                                                  *)
(* ------------------------------------------------------------------ *)

\* C2: after undoPatch of the committed patch the dictionary has exactly the
\* logical key-to-value mapping it had when the scope started.
C2_UndoRestoresStart ==
    (subject = "m" /\ phase = "undone") =>
        LogicalEntries(target["m"]) = LogicalEntries(startTarget)

(* ------------------------------------------------------------------ *)
(* C3                                                                  *)
(* ------------------------------------------------------------------ *)

\* C3: the dictionary never holds an entry under a container and another under
\* that container's view, and while it holds an entry for the container, get
\* and has answer the same for the container and for its view.
C3_KeyAliasing ==
    /\ ~(MapHas(target["m"], "c") /\ MapHas(target["m"], "cv"))
    /\ (Truthy(objectToProxy["c"])
        /\ (MapHas(target["m"], "c") \/ MapHas(target["m"], "cv"))) =>
          /\ DimmerMap_get(ViewState, "m", "c") = DimmerMap_get(ViewState, "m", "cv")
          /\ DimmerMap_has(ViewState, "m", "c") = DimmerMap_has(ViewState, "m", "cv")
          /\ DimmerMap_has(ViewState, "m", "c")

\* An entry was deleted and set again through the view, the last set naming
\* the form of the key that the dictionary does not store.
C3_Witness ==
    /\ phase = "recording"
    /\ subject = "m"
    /\ Len(mutation) >= 2
    /\ mutation[Len(mutation)].op = "set"
    /\ \/ mutation[Len(mutation)].key = "cv" /\ MapHas(target["m"], "c")
       \/ mutation[Len(mutation)].key = "c" /\ MapHas(target["m"], "cv")
    /\ \E i \in 1..(Len(mutation) - 1) : mutation[i].op = "delete"

(* ------------------------------------------------------------------ *)
(* C4                                                                  *)
(* ------------------------------------------------------------------ *)

\* C4: round-trip undo. After undoPatch of the committed patch and the same
\* mutation applied again through the view, the container holds the entries
\* it held before the undo. A dictionary, a set and a record are compared
\* entry by entry, a sequence index by index.
C4_RoundTripUndo ==
    phase = "reapplied" =>
        IF subject = "arr"
        THEN target[subject] = postTarget
        ELSE Range(target[subject]) = Range(postTarget)

\* A patch was undone, the undo changed the container, and the mutation was
\* applied again.
C4_Witness ==
    /\ phase = "reapplied"
    /\ Len(mutation) >= 2
    /\ Range(postTarget) # Range(startTarget)
    /\ Range(target[subject]) = Range(postTarget)

(* ------------------------------------------------------------------ *)
(* C5                                                                  *)
(* ------------------------------------------------------------------ *)

\* The value createReversePatch is to record for a key of the patch: the
\* container's current value, NO_ENTRY if the key is no longer present.
CurrentValue(container, content, key) ==
    CASE KindOf(container) = "map" -> LogicalValue(content, asOriginal(key))
      [] KindOf(container) = "set" -> SetHas(content, key)
      [] OTHER -> IF MapHas(content, key) THEN MapGet(content, key) ELSE NO_ENTRY

\* C5: the reverse-patch law. The reverse patch r of a committed patch p has
\* the target and the keys of p, each with the container's current value
\* (NO_ENTRY for a key no longer present); and undoPatch(p) followed by
\* undoPatch(r) leaves the container as it was right after the mutation.
C5_ReversePatchLaw ==
    /\ (phase = "committed" /\ hasReverse) =>
          /\ reverse.of = changes[1].of
          /\ IF subject = "arr"
             THEN reverse.entries = target[subject]
             ELSE /\ Len(reverse.entries) = Len(changes[1].entries)
                  /\ \A i \in 1..Len(reverse.entries) :
                        /\ reverse.entries[i][1] = changes[1].entries[i][1]
                        /\ reverse.entries[i][2] =
                              CurrentValue(subject, target[subject],
                                           reverse.entries[i][1])
    /\ phase = "reundone" =>
          IF subject = "arr"
          THEN target[subject] = postTarget
          ELSE Range(target[subject]) = Range(postTarget)


(* ------------------------------------------------------------------ *)
(* Claims about the dispatcher                                          *)
(* ------------------------------------------------------------------ *)

\* The invocations of the middleware chain made for `op`, oldest first.
CallsOf(op) == calls[op]

Passes(op) == Len(CallsOf(op))

\* The last invocation of the middleware chain made for `op`.
LastCall(op) == CallsOf(op)[Passes(op)]

Executing(op) == ops[op].status \in {"running", "waiting", "yielded", "returned"}

\* C6: a mutateAsync call that runs to completion invokes the middleware
\* chain (checkpoints reached) + 1 times, checkpoints of delegated
\* sub-routines counting like the body's own. Until then it has made one
\* invocation per checkpoint the dispatcher has taken back, so that
\* delegating and waiting on an external operation add none.
C6_CheckpointCounting ==
    \A op \in OpIds :
        LET o == ops[op]
        IN  /\ o.status = "resolved" => Passes(op) = o.checkpoints + 1
            /\ o.status \in {"idle", "running", "waiting", "returned"}
                  => Passes(op) = o.checkpoints
            /\ o.status = "yielded" => Passes(op) = o.checkpoints - 1

\* A call that delegated, reached a checkpoint inside the sub-routine,
\* waited on an external operation and ran to completion.
C6_Witness ==
    \E op \in OpIds :
        /\ ops[op].status = "resolved"
        /\ ops[op].subCheckpoints >= 1
        /\ ops[op].waits >= 1
        /\ Passes(op) = 2

\* The value a patch must hold for `property` of `record`: the one it had
\* in `snap`.
PreImage(snap, record, property) ==
    IF MapHas(snap[record], property) THEN MapGet(snap[record], property)
    ELSE NO_ENTRY

\* The batch holds a patch for exactly the records in `wrote`, each with
\* the value the written property had in `snap`.
ExactBatch(deltas, wrote, snap) ==
    /\ Len(deltas) = Cardinality(wrote)
    /\ {deltas[i].of : i \in 1..Len(deltas)} = wrote
    /\ \A i \in 1..Len(deltas) :
          /\ deltas[i].defined
          /\ deltas[i].entries =
                <<<<"prop0", PreImage(snap, deltas[i].of, "prop0")>>>>

\* C7: the batch handed to the middleware chain at each pass of a
\* mutateAsync call holds a patch for exactly the containers its body wrote
\* since the previous pass (or the start), each with the values at the start
\* of that interval; an interval without a write gives an empty batch.
C7_BatchesPartitionChanges ==
    \A op \in OpIds :
        \A i \in 1..Passes(op) :
            LET call == CallsOf(op)[i]
            IN  ExactBatch(call.deltas, call.wrote, call.snap)

C9_CancellationFinalPass ==
    \A op \in OpIds :
        ops[op].status = "rejected" =>
            /\ Passes(op) >= 1
            /\ LastCall(op).cancelled
            /\ \A i \in 1..(Passes(op) - 1) : ~CallsOf(op)[i].cancelled
            /\ LET call == LastCall(op)
               IN  /\ Len(call.deltas) = Len(call.pending)
                   /\ \A i \in 1..Len(call.deltas) :
                         /\ call.deltas[i].of = call.pending[i]
                         /\ call.deltas[i].defined
                         /\ call.deltas[i].entries # <<>>

\* Operations were torn down at a checkpoint with an empty batch and at the
\* end of a body without checkpoint with a batch that is not empty.
C9_Witness ==
    /\ \E op \in OpIds :
          /\ ops[op].status = "rejected"
          /\ LastCall(op).checkpoint
          /\ LastCall(op).deltas = <<>>
    /\ \E op \in OpIds :
          /\ ops[op].status = "rejected"
          /\ ops[op].checkpoints = 0
          /\ ~LastCall(op).checkpoint
          /\ LastCall(op).deltas # <<>>

\* C10: an operation cancelled while it waits on an external operation is
\* not torn down by the wait settling nor while its body runs on; the
\* cancellation resolves only once it is rejected; it reaches at most one
\* more checkpoint and executes nothing after that one.
C10_CancellationDeferred ==
    /\ [](\A op \in OpIds :
            ops[op].cancelledWaiting =>
                /\ cancelState = "resolved" => ops[op].status = "rejected"
                /\ ops[op].checkpoints <= ops[op].checkpointsAtCancel + 1
                /\ (ops[op].checkpoints = ops[op].checkpointsAtCancel + 1)
                      => ops[op].last = "checkpoint"
                /\ ops[op].status # "resolved")
    /\ [][\A op \in OpIds :
            ops[op].cancelledWaiting =>
                /\ ops[op].status = "waiting"
                      => ops'[op].status \in {"waiting", "running"}
                /\ ops[op].status = "running"
                      => ops'[op].status \in {"running", "waiting", "yielded",
                                              "returned"}]_vars

\* An operation cancelled during its wait has written to the state after
\* the cancellation, reached a checkpoint and been rejected, and the
\* cancellation has resolved.
C10_Witness ==
    /\ cancelState = "resolved"
    /\ \E op \in OpIds :
          /\ ops[op].cancelledWaiting
          /\ ops[op].status = "rejected"
          /\ ops[op].steps >= ops[op].stepsAtCancel + 2
          /\ LastCall(op).wrote # {}
          /\ LastCall(op).checkpoint

\* The containers an operation has written so far: those reported with its
\* middleware calls and those written since its last pass.
WroteEver(op) ==
    UNION {CallsOf(op)[i].wrote : i \in 1..Passes(op)} \cup ops[op].wrote

\* The containers for which a batch carries a patch.
ContainersOf(deltas) == {deltas[i].of : i \in 1..Len(deltas)}

\* C11: when two mutateAsync operations have been outstanding at once and
\* have written to different containers, every batch delivered for one
\* operation carries patches only for containers that operation wrote, and
\* every write of an operation is in exactly one of its own batches: the
\* batch of the pass that follows the write.
C11_SeparateRecordingState ==
    \A a, b \in OpIds :
        (/\ a # b
         /\ WroteEver(a) # {}
         /\ WroteEver(b) # {}
         /\ WroteEver(a) \cap WroteEver(b) = {})
        => \A i \in 1..Passes(a) :
              LET call == CallsOf(a)[i]
              IN  /\ ContainersOf(call.deltas) \subseteq WroteEver(a)
                  /\ ExactBatch(call.deltas, call.wrote, call.snap)

C13_ReentrancyDepth ==
    \A i \in 1..Len(log) :
        /\ log[i].depth = log[i].atStart
        /\ log[i].caller = 0 => log[i].depth = 0
        /\ log[i].caller # 0 => log[i].depth = log[log[i].caller].depth + 1

\* A top-level call, a call made from inside its command, and a top-level
\* call made after both have unwound.
C13_Witness ==
    /\ Len(log) = 3
    /\ log[1].caller = 0 /\ log[1].depth = 0 /\ log[1].unwound
    /\ log[2].caller = 1 /\ log[2].depth = 1 /\ log[2].unwound
    /\ log[3].caller = 0 /\ log[3].depth = 0 /\ log[3].allNext

\* The keys that a set call or a property assignment of the scope named.
WrittenKeys ==
    {asOriginal(mutation[i].key) :
        i \in {j \in 1..Len(mutation) : mutation[j].op \in {"set", "put"}}}

\* C14: the batch of a scope describes what changed. When a recordPatches
\* scope over a dictionary or a record commits, the batch is empty if the
\* scope made no write call, and if it set a key or assigned a property it
\* holds one patch, that of the container written, in which every key
\* written is mapped to the value it had when the scope started (NO_ENTRY
\* if it had none); a key whose last write was a set or an assignment of v
\* holds v in the container.
C14_BatchDescribesChange ==
    (subject \in {"m", "obj"} /\ phase = "committed") =>
        /\ mutation = <<>> => changes = <<>>
        /\ WrittenKeys # {}
             => /\ Len(changes) = 1
                /\ changes[1].of = subject
                /\ changes[1].defined
                /\ \A lk \in WrittenKeys :
                      /\ Cardinality(EntriesFor(CommittedEntries, lk)) = 1
                      /\ \A i \in EntriesFor(CommittedEntries, lk) :
                            CommittedEntries[i][2] = LogicalValue(startTarget, lk)
        /\ \A lk \in WrittenKeys :
              mutation[Max(CallsOn(lk))].op \in {"set", "put"}
              => LogicalValue(target[subject], lk) = mutation[Max(CallsOn(lk))].value

\* The keys and the values that a container holds.
Held(container) ==
    IF KindOf(container) \in {"map", "object"}
    THEN {target[container][i][1] : i \in 1..Len(target[container])}
           \cup {target[container][i][2] : i \in 1..Len(target[container])}
    ELSE Range(target[container])

\* The keys that a patch of a dictionary or of a record maps to NO_ENTRY.
AbsentBefore(patch) ==
    {asOriginal(patch.entries[i][1]) :
        i \in {j \in 1..Len(patch.entries) : patch.entries[j][2] = NO_ENTRY}}

\* C15: NO_ENTRY never leaks. Whatever tracked writes, commit, undoPatch and
\* undoPatch of the reverse patch have been made on a dictionary, a set, a
\* sequence or a record, no container holds NO_ENTRY as a key or as a value,
\* and after undoPatch of a patch the container has no entry for a key that
\* the patch maps to NO_ENTRY.
C15_NoEntryNeverLeaks ==
    /\ \A container \in Containers : NO_ENTRY \notin Held(container)
    /\ (phase = "undone" /\ KindOf(subject) \in {"map", "object"})
          => \A lk \in AbsentBefore(changes[1]) :
                LogicalValue(target[subject], lk) = NO_ENTRY
    /\ (phase = "reundone" /\ KindOf(subject) \in {"map", "object"})
          => \A lk \in AbsentBefore(reverse) :
                LogicalValue(target[subject], lk) = NO_ENTRY

\* C16: tracking is idempotent and one-to-one. After any sequence of
\* ensureProxy, proxify, recordPatches and reads through a view, no call has
\* thrown, every container has at most one view and every container handed
\* to a tracking call exactly one (the one the registry gives), a view is
\* never the container of a view, ensureProxy(ensureProxy(x)) is
\* ensureProxy(x) for every container and every view x, asOriginal of it is
\* the container, and asOriginal(x) is x for a value that is not a view.
C16_OneToOneTracking ==
    /\ returned # "Error"
    /\ \A x \in RegObjects :
          /\ Cardinality({i \in 1..Len(proxies) : proxies[i] = x}) <= 1
          /\ MapHas(objectToProxy, x)
                => /\ MapGet(objectToProxy, x) \in Views
                   /\ Registry_ORIGINAL(proxies, MapGet(objectToProxy, x)) = x
    /\ \A v \in Views :
          /\ Registry_ORIGINAL(proxies, v) \in RegObjects
          /\ MapGet(objectToProxy, v) = v
          /\ MapGet(objectToProxy, Registry_ORIGINAL(proxies, v)) = v
    /\ \A x \in RegObjects \cup Views :
          LET once  == Registry_ensureProxy(Registry, x)
              twice == Registry_ensureProxy(once, once.returned)
          IN  /\ once.returned # "Error"
              /\ twice.returned = once.returned
              /\ twice.otp = once.otp
              /\ twice.proxies = once.proxies
              /\ Registry_asOriginal(once.proxies, once.returned)
                    = Registry_asOriginal(proxies, x)
              /\ x \in RegObjects
                    => Registry_asOriginal(once.proxies, once.returned) = x
    /\ \A x \in RegObjects \cup {"k0"} : Registry_asOriginal(proxies, x) = x

\* Two containers are tracked, and ensureProxy has been called on a view and
\* has returned that view.
C16_Witness ==
    /\ Len(proxies) >= 2
    /\ returned \in Views
    /\ \E x \in RegObjects : MapHas(objectToProxy, x) /\ MapGet(objectToProxy, x) = returned

\* C17: a commit of a scope in which nothing was modified gives a batch of
\* length 0. The batch of a scope without a write call is empty, the batch
\* of a commit that immediately follows another commit is empty, and no
\* batch holds an undefined patch.
C17_EmptyCommit ==
    /\ (phase \in {"committed", "flushed"} /\ mutation = <<>>) => changes = <<>>
    /\ phase = "reflushed" => changes = <<>>
    /\ \A i \in 1..Len(changes) : changes[i].defined

\* The entries of a dictionary or of a patch for the logical keys other
\* than lk.
Others(m, lk) == SelectSeq(m, LAMBDA e : asOriginal(e[1]) # lk)

\* C18: delete through the dictionary view. In every state of a recording
\* scope and for every key k, also a falsy one: if the dictionary has no
\* entry for k under its view or its original, delete(k) returns false and
\* leaves the dictionary, the open patch and the modified set as they are;
\* if it has one, delete(k) returns true, removes that entry and no other,
\* and maps k to the value it held in the open patch unless the patch had
\* an entry for k, in which case the patch is left as it is.
C18_DeleteThroughView ==
    (subject = "m" /\ phase = "recording") =>
        \A k \in {key \in MapKeys : Usable(key)} :
            LET lk       == asOriginal(k)
                present  == LogicalValue(target["m"], lk) # NO_ENTRY
                recorded == EntriesFor(delta["m"], lk) # {}
                after    == DimmerMap_delete(ViewState, "m", k)
                result   == DimmerMap_deleteResult(ViewState, "m", k)
            IN  /\ ~present => (~result /\ after = ViewState)
                /\ present =>
                      /\ result
                      /\ LogicalValue(after.target["m"], lk) = NO_ENTRY
                      /\ Others(after.target["m"], lk) = Others(target["m"], lk)
                      /\ Others(after.delta["m"], lk) = Others(delta["m"], lk)
                      /\ recorded => after.delta["m"] = delta["m"]
                      /\ ~recorded
                            => /\ Cardinality(EntriesFor(after.delta["m"], lk)) = 1
                               /\ \A i \in EntriesFor(after.delta["m"], lk) :
                                     after.delta["m"][i][2]
                                        = LogicalValue(target["m"], lk)
                               /\ SetHas(after.modified, "m")

\* C19: clear through the dictionary view. In every state of a recording
\* scope clear() empties the dictionary, keeps every entry the open patch
\* had, adds for every logical key that has an entry in the dictionary and
\* none in the patch one entry with the key's current value, and adds
\* nothing for a logical key the patch had snapshotted, under either form of
\* the key.
C19_ClearThroughView ==
    (subject = "m" /\ phase = "recording") =>
        LET after == DimmerMap_clear(ViewState, "m")
        IN  /\ after.target["m"] = <<>>
            /\ SubSeq(after.delta["m"], 1, Len(delta["m"])) = delta["m"]
            /\ \A lk \in LogicalKeys :
                  LET present  == LogicalValue(target["m"], lk) # NO_ENTRY
                      recorded == EntriesFor(delta["m"], lk) # {}
                  IN  /\ recorded
                          => EntriesFor(after.delta["m"], lk)
                                = EntriesFor(delta["m"], lk)
                      /\ (~recorded /\ ~present)
                          => EntriesFor(after.delta["m"], lk) = {}
                      /\ (~recorded /\ present)
                          => /\ Cardinality(EntriesFor(after.delta["m"], lk)) = 1
                             /\ \A i \in EntriesFor(after.delta["m"], lk) :
                                   after.delta["m"][i][2]
                                      = LogicalValue(target["m"], lk)
                             /\ SetHas(after.modified, "m")

\* The positions of the entries that a dictionary holds for a logical key.
StoredFor(m, lk) == {j \in 1..Len(m) : asOriginal(m[j][1]) = lk}

\* undoPatch has left the dictionary as the entries of the patch say: for an
\* entry (key, prior) that is the only one of its logical key, no entry
\* under either form of the key if prior is NO_ENTRY, else one entry, stored
\* under the patch's key, with the value prior.
Resolved(m, entries) ==
    \A i \in 1..Len(entries) :
        LET key   == entries[i][1]
            prior == entries[i][2]
            lk    == asOriginal(key)
        IN  EntriesFor(entries, lk) = {i}
            => IF prior = NO_ENTRY
               THEN StoredFor(m, lk) = {}
               ELSE /\ Cardinality(StoredFor(m, lk)) = 1
                    /\ MapHas(m, key)
                    /\ MapGet(m, key) = prior

\* C20: undoPatch on a dictionary resolves key aliases. After undoPatch of
\* the committed patch, and after undoPatch of its reverse patch, the
\* dictionary holds no entry, under the view or under the original, for a
\* key that the patch maps to NO_ENTRY, and exactly one entry, under the
\* patch's key and with the recorded value, for any other key of the patch.
C20_UndoResolvesAliases ==
    /\ (subject = "m" /\ phase = "undone")
          => Resolved(target["m"], changes[1].entries)
    /\ (subject = "m" /\ phase = "reundone")
          => Resolved(target["m"], reverse.entries)

(* ------------------------------------------------------------------ *)
(* Claims about successive, nested and failed scopes                    *)
(* ------------------------------------------------------------------ *)

\* The scopes opened from inside the mutator of scope i.
Children(i) == {j \in 1..Len(log) : log[j].parent = i}

\* No mutator has thrown.
NoneFailed == \A i \in 1..Len(log) : log[i].status # "failed"

\* C21: nested scopes are isolated. When no mutator throws, the batch that
\* a recordPatches scope returns holds a patch of the dictionary exactly if
\* the mutator of that scope wrote the dictionary, whether the scope was
\* opened from inside another or had others opened from inside it, before
\* or after its own writes; and when a scope has just been opened from
\* inside another, the modified set still holds what it held before.
C21_NestedScopesIsolated ==
    NoneFailed =>
        /\ \A i \in 1..Len(log) :
              log[i].status = "committed"
              => ContainersOf(log[i].deltas)
                    = (IF log[i].written # {} THEN {"m"} ELSE {})
        /\ \A i \in 1..Len(log) :
              (/\ stack # <<>>
               /\ stack[Len(stack)] = i
               /\ log[i].parent # 0
               /\ log[i].writes = 0
               /\ Children(i) = {})
              => Range(log[i].pending) \subseteq Range(modified)

\* Every scope was opened from the top level.
Flat == \A i \in 1..Len(log) : log[i].parent = 0

\* The entries of the patch of the dictionary in a batch, <<>> if none.
EntriesIn(deltas) == IF Len(deltas) > 0 THEN deltas[1].entries ELSE <<>>

\* C22: commit detaches the open patch. With scopes made one after another
\* and no mutator throwing, a committed batch holds patches of the
\* dictionary itself, the dictionary has no open patch entry once the scope
\* has committed, and a scope that sets a key which an earlier committed
\* scope has set snapshots the key again: its patch has one entry for the
\* key, with the value the key had when this later scope started.
C22_CommitDetaches ==
    (Flat /\ NoneFailed) =>
        /\ stack = <<>> => delta["m"] = <<>>
        /\ \A i \in 1..Len(log) :
              log[i].status = "committed"
              => /\ ContainersOf(log[i].deltas) \subseteq {"m"}
                 /\ Len(log[i].deltas) <= 1
                 /\ \A lk \in log[i].written :
                       (\E j \in 1..(i - 1) : lk \in log[j].written)
                       => /\ Cardinality(EntriesFor(EntriesIn(log[i].deltas), lk)) = 1
                          /\ \A e \in EntriesFor(EntriesIn(log[i].deltas), lk) :
                                EntriesIn(log[i].deltas)[e][2]
                                   = LogicalValue(log[i].start, lk)

\* C23: the modified set is cleared when the scope commits. Right after a
\* commit, by recordPatches or by commitPatches() itself, the modified set
\* is empty, and the batch of a commit made right after another holds no
\* patch of a container written only before the first of the two.
C23_ModifiedClearedOnCommit ==
    /\ phase \in {"committed", "flushed", "reflushed"} => modified = <<>>
    /\ phase = "reflushed" => ContainersOf(changes) = {}

\* C24: a failed scope does not corrupt later recording. With scopes made
\* one after another: the modified set is empty once a scope has ended,
\* also by a throw of its mutator, and a scope that sets a key which an
\* earlier failed scope had set returns a batch with a patch of the
\* dictionary in which the key is mapped to the value it had when this
\* later scope started.
C24_FailedScope ==
    Flat =>
        /\ stack = <<>> => modified = <<>>
        /\ \A i \in 1..Len(log) :
              log[i].status = "committed"
              => \A lk \in log[i].written :
                    (\E j \in 1..(i - 1) : /\ log[j].status = "failed"
                                           /\ lk \in log[j].written)
                    => /\ ContainersOf(log[i].deltas) = {"m"}
                       /\ Cardinality(EntriesFor(EntriesIn(log[i].deltas), lk)) = 1
                       /\ \A e \in EntriesFor(EntriesIn(log[i].deltas), lk) :
                             EntriesIn(log[i].deltas)[e][2]
                                = LogicalValue(log[i].start, lk)

\* Whether a batch has a patch whose target is `original`.
HasPatchFor(patches, original) ==
    \E i \in 1..Len(patches) : patchToTarget(patches[i]) = original

\* Every batch of the history holds at most one patch per container.
OnePerContainer(history) ==
    \A b \in 1..Len(history) : \A i, j \in 1..Len(history[b]) :
        patchToTarget(history[b][i]) = patchToTarget(history[b][j]) => i = j

\* C25: for a container passed as its view or as its original,
\* getObjectTimeline answers pairs (batchIndex, patch) in strictly increasing
\* batchIndex order, one for each batch that has a patch whose target is the
\* container's original and none for the other batches; when every batch has
\* at most one patch per container, findAllPatchesInHistory answers the
\* patches of that timeline in the same order; findPatchForObject on a batch
\* answers a patch of that batch for the original, or undefined when the
\* batch has none.
C25_TimelineQueries ==
    LET history == timeline.history
        original == asOriginal(timeline.asked)
        answer == timeline.answer
        timelineOf == getObjectTimeline(history, timeline.asked)
    IN  /\ timeline.op = "getObjectTimeline" =>
              /\ \A k \in 1..Len(answer) :
                    /\ Len(answer[k]) = 2
                    /\ answer[k][1] \in 0..(Len(history) - 1)
                    /\ answer[k][2] \in Range(history[answer[k][1] + 1])
                    /\ patchToTarget(answer[k][2]) = original
              /\ \A k \in 1..(Len(answer) - 1) : answer[k][1] < answer[k + 1][1]
              /\ {answer[k][1] : k \in 1..Len(answer)}
                    = {b \in 0..(Len(history) - 1) : HasPatchFor(history[b + 1], original)}
        /\ (timeline.op = "findAllPatchesInHistory" /\ OnePerContainer(history)) =>
              /\ Len(answer) = Len(timelineOf)
              /\ \A k \in 1..Len(answer) : answer[k] = timelineOf[k][2]
        /\ timeline.op = "findPatchForObject" =>
              IF HasPatchFor(history[timeline.batch + 1], original)
              THEN /\ answer \in Range(history[timeline.batch + 1])
                   /\ patchToTarget(answer) = original
              ELSE answer = NoSuchPatch

\* A batch of a three-batch history is asked for the patch of a container
\* through the container's view, and has one.
C25_Witness ==
    /\ timeline.op = "findPatchForObject"
    /\ timeline.asked = "cv"
    /\ Len(timeline.history) = MaxBatches
    /\ timeline.answer # NoSuchPatch
    /\ \E b \in 1..Len(timeline.history) : ~HasPatchFor(timeline.history[b], "c")

\* The container a reference of the graph leads to: a view leads to its
\* original.
WalkTarget(ref) == IF Truthy(Walk_ORIGINAL(ref)) THEN Walk_ORIGINAL(ref) ELSE ref

\* The number of references to a container in the graph the call was given,
\* the one passed by the caller included.
RefsTo(w, node) ==
    Cardinality({<<n, i>> \in WalkNodes \X (1..MaxRefs) :
                    i <= Len(w.graph[n]) /\ WalkTarget(w.graph[n][i]) = node})
    + (IF WalkTarget(w.root) = node THEN 1 ELSE 0)

\* C26: on every finite graph of records, sequences, dictionaries and sets,
\* cyclic and aliased ones included, cloneDeep and removeDiagonMetadata enter
\* a container at most once for each reference to it and return rather than
\* throw; when cloneDeep has returned, every reference to one container has
\* been cloned as a reference to one and the same clone.
C26_WalksTerminate ==
    walk.fn \in {"cloneDeep", "removeDiagonMetadata"} =>
        /\ walk.outcome \in {"running", "returned"}
        /\ \A n \in WalkNodes : walk.visits[n] <= RefsTo(walk, n)
        /\ (walk.fn = "cloneDeep" /\ walk.outcome = "returned") =>
              /\ \A n \in WalkNodes : walk.visits[n] <= 1
              /\ walk.result = walk.memo[WalkTarget(walk.root)]
              /\ \A n \in WalkNodes : walk.visits[n] = 1 =>
                    /\ Len(walk.clones[walk.memo[n]]) = Len(walk.graph[n])
                    /\ \A i \in 1..Len(walk.graph[n]) :
                          walk.clones[walk.memo[n]][i]
                            = IF walk.graph[n][i] = "a" THEN "a"
                              ELSE walk.memo[WalkTarget(walk.graph[n][i])]

\* C27: a call of size, has, get, forEach, keys, values or entries on the
\* dictionary view (iterating the view is entries) leaves the entries of
\* every container, every open patch and the modified set as they were; only
\* the registry of tracking views may change.
C27_ReadsKeepPatchState ==
    [][ReadStep => UNCHANGED <<target, delta, open, modified>>]_vars

\* A read of a key whose value is a container has been made after a write of
\* the scope, with the dictionary in the modified set and its patch open.
C27_Witness ==
    /\ phase = "recording"
    /\ Len(mutation) >= 2
    /\ mutation[1].op = "set"
    /\ mutation[Len(mutation)].op = "get"
    /\ MapGet(target["m"], asOriginal(mutation[Len(mutation)].key)) = "c"
    /\ Truthy(objectToProxy["c"])
    /\ delta["m"] # <<>>
    /\ modified = <<"m">>

====
